---- MODULE Spec2Model ----
(***************************************************************************)
(* Survey-and-recommend pipeline of the AI knowledge survey agent.         *)
(*                                                                         *)
(* The model follows the single-threaded event loop of the Node process:   *)
(* one action is one task of the loop, the settling of an await (a timer,  *)
(* a response) together with the synchronous code and the promise          *)
(* continuations that run up to the next awaits.  better-sqlite3 is        *)
(* synchronous, so a store call never suspends its caller.                 *)
(*                                                                         *)
(*   Spec       orchestrator (runSurvey / runOnDemand), BaseSurveyor.run,  *)
(*              the adapters' survey() and the DatabaseManager tables      *)
(*   SpecFetch  BaseSurveyor.fetchWithRetry on its own                     *)
(*   SpecSched  AgentOrchestrator.start / stop and the daily timers        *)
(*   SpecEngine PersonalizationEngine.analyzeProject and                   *)
(*              generateRecommendations over small catalogs                *)
(*   SpecCatalog  the same engine over a catalog of more than 1000 tools   *)
(*   SpecBase   the scoring and categorizing helpers of BaseSurveyor        *)
(***************************************************************************)
EXTENDS Integers, Sequences, FiniteSets, TLC

VARIABLES
    tools,        \* table ai_tools, in rowid order
    survey_runs,  \* table survey_runs, in rowid order
    clock,        \* wall clock read by CURRENT_TIMESTAMP, in seconds
    surveyors,    \* AgentOrchestrator.surveyors: Map keys in insertion order
    throwing,     \* registered surveyors whose survey() implementation throws
    apiKey,       \* process.env.YOUTUBE_API_KEY is set
    call,         \* per caller: the runSurvey()/runOnDemand() frame
    inv,          \* per caller and surveyor position: the run()/survey() frame
    net,          \* what the external sources have delivered so far
    fw,           \* the fetchWithRetry() frame (SpecFetch)
    sched,        \* AgentOrchestrator.isRunning, scheduledTasks and the armed timers
    user_projects,    \* table user_projects, in rowid order
    recommendations,  \* table recommendations, in rowid order
    engine,       \* the last PersonalizationEngine call: its arguments and outcome
    helper        \* the last call of a BaseSurveyor helper and the one before it

vars == <<tools, survey_runs, clock, surveyors, throwing, apiKey, call, inv, net, fw, sched,
          user_projects, recommendations, engine, helper>>

----------------------------------------------------------------------------
(* Bounds of the model *)

MaxEvents == 2      \* events of the environment in one behaviour: an item a
                    \* source delivers, a failing fetch, a tick of the clock

----------------------------------------------------------------------------
(* Small helpers *)

NoCall == "none"

\* the calls of runSurvey()/runOnDemand() that can be in progress together
CallerOrder == <<"c1", "c2">>

Callers == {CallerOrder[k] : k \in 1..Len(CallerOrder)}

Min(a, b) == IF a <= b THEN a ELSE b

Last(seq) == seq[Len(seq)]

Take(s, n) == SubSeq(s, 1, Min(n, Len(s)))

RECURSIVE SeqsUpTo(_, _)
SeqsUpTo(S, n) ==
    IF n = 0 THEN {<<>>}
    ELSE LET shorter == SeqsUpTo(S, n - 1)
         IN  shorter \cup {Append(s, x) : s \in {t \in shorter : Len(t) = n - 1}, x \in S}

----------------------------------------------------------------------------
(* Adapters *)

SurveyorOrder == <<"huggingface", "github", "youtube", "arxiv">>

SurveyorNames == {SurveyorOrder[k] : k \in 1..Len(SurveyorOrder)}

\* Array.join('\n') / template strings
RECURSIVE Join(_, _)
Join(strs, sep) ==
    IF strs = <<>> THEN ""
    ELSE IF Len(strs) = 1 THEN strs[1]
    ELSE strs[1] \o sep \o Join(Tail(strs), sep)

AllDimensions(a) ==
    CASE a = "huggingface" -> <<"models", "spaces">>
      [] a = "github" -> <<"artificial-intelligence", "machine-learning", "deep-learning",
                           "llm", "large-language-model", "ai-agents", "computer-vision",
                           "nlp", "natural-language-processing">>
      [] a = "youtube" -> <<"AI tools new", "machine learning tools", "LLM applications",
                            "AI agents tutorial", "latest AI developments">>
      [] a = "arxiv" -> <<"cs.AI", "cs.LG", "cs.CL", "cs.CV", "cs.RO">>

\* the model surveys the first two query dimensions of every adapter
Dimensions(a) == Take(AllDimensions(a), 2)

\* url values an adapter's mapping can produce for a dimension
UrlsOf(a, d) ==
    CASE a = "huggingface" ->
            IF d = 1 THEN {"https://huggingface.co/o/m"}
            ELSE {"https://huggingface.co/spaces/o/s"}
      [] a = "github" -> {"https://github.com/o/r1", "https://github.com/o/r2"}
      [] a = "youtube" -> {"https://www.youtube.com/watch?v=v1",
                           "https://www.youtube.com/watch?v=v2"}
      [] a = "arxiv" -> {"http://arxiv.org/abs/1", "http://arxiv.org/abs/2"}

Descriptions == {"d1", "d2"}

FetchErrors == {"HTTP 500: Internal Server Error"}

\* what a better-sqlite3 call throws
StoreErrors == {"database is locked"}

\* JSON.stringify of an array of strings and of an object with string values
\* (given as <<key, value>> pairs in insertion order), none needing an escape
Stringify(kind, entries) ==
    IF kind = "array"
    THEN "[" \o Join([n \in 1..Len(entries) |-> "\"" \o entries[n] \o "\""], ",") \o "]"
    ELSE "{" \o Join([n \in 1..Len(entries) |->
                        "\"" \o entries[n][1] \o "\":\"" \o entries[n][2] \o "\""], ",") \o "}"

\* the AITool an adapter maps an item to: what the item says beyond its url
\* goes with its description (relevance_score is never set by an adapter)
Mapped(a, url, description) ==
    IF description = "d1"
    THEN [name |-> "n1", description |-> description, url |-> url, source |-> a,
          category |-> "LLM", subcategory |-> "Python",
          capabilities |-> <<"text-generation">>, api_available |-> TRUE,
          open_source |-> FALSE, pricing_model |-> "free", popularity_score |-> 10,
          metadata |-> <<<<"language", "Python">>>>]
    ELSE [name |-> "n2", description |-> description, url |-> url, source |-> a,
          category |-> "Agent", subcategory |-> "Rust",
          capabilities |-> <<"chat", "rag">>, api_available |-> FALSE,
          open_source |-> TRUE, pricing_model |-> "freemium", popularity_score |-> 20,
          metadata |-> <<<<"language", "Rust">>, <<"license", "MIT">>>>]

Items(a, d) == {Mapped(a, url, description) : url \in UrlsOf(a, d), description \in Descriptions}

\* the pages an adapter can be delivered for each of its dimensions: up to
\* two mapped tools (a url can occur twice)
Pages ==
    [a \in SurveyorNames |-> [d \in 1..Len(Dimensions(a)) |-> SeqsUpTo(Items(a, d), 2)]]

\* a fetched page
Batches(a, d) == Pages[a][d]

----------------------------------------------------------------------------
(* DatabaseManager: ai_tools *)

\* SELECT * FROM ai_tools WHERE url = ?  (stmt.get: the first matching row)
MatchingRows(rows, url) == {k \in 1..Len(rows) : rows[k].url = url}

HasToolByUrl(rows, url) == MatchingRows(rows, url) # {}

getToolByUrl(rows, url) ==
    rows[CHOOSE k \in MatchingRows(rows, url) : \A j \in MatchingRows(rows, url) : k <= j]

\* tool.x || fallback for a field that can be undefined
OrElse(tool, field, fallback) ==
    IF field \in DOMAIN tool THEN tool[field] ELSE fallback

\* INSERT INTO ai_tools (name, ..., metadata): AUTOINCREMENT id,
\* first_discovered and last_updated default to CURRENT_TIMESTAMP; the
\* booleans are bound as 1 or 0, the scores with "|| 0", capabilities and
\* metadata as JSON text
insertTool(rows, tool, now) ==
    Append(rows, [id |-> Len(rows) + 1,
                  name |-> tool.name,
                  description |-> tool.description,
                  url |-> tool.url,
                  source |-> tool.source,
                  category |-> tool.category,
                  subcategory |-> tool.subcategory,
                  capabilities |-> Stringify("array", OrElse(tool, "capabilities", <<>>)),
                  api_available |-> IF OrElse(tool, "api_available", FALSE) THEN 1 ELSE 0,
                  open_source |-> IF OrElse(tool, "open_source", FALSE) THEN 1 ELSE 0,
                  pricing_model |-> tool.pricing_model,
                  first_discovered |-> now,
                  last_updated |-> now,
                  popularity_score |-> OrElse(tool, "popularity_score", 0),
                  relevance_score |-> OrElse(tool, "relevance_score", 0),
                  metadata |-> Stringify("object", OrElse(tool, "metadata", <<>>))])

\* updateTool as INSERT OR REPLACE would do it: every column is written anew
\* and the timestamps start afresh
updateToolReplace(rows, id, tool, now) ==
    [k \in 1..Len(rows) |->
        IF rows[k].id = id
        THEN [Last(insertTool(rows, tool, now)) EXCEPT !.id = id]
        ELSE rows[k]]

\* UPDATE ai_tools SET <name, description, url, category, capabilities,
\* popularity_score: those that are not undefined in `tool`>,
\* last_updated = CURRENT_TIMESTAMP WHERE id = ?   (a field that is undefined
\* is a field the record does not have)
updateTool(rows, id, tool, now) ==
    [k \in 1..Len(rows) |->
        IF rows[k].id = id
        THEN [rows[k] EXCEPT
                 !.name = OrElse(tool, "name", @),
                 !.description = OrElse(tool, "description", @),
                 !.url = OrElse(tool, "url", @),
                 !.category = OrElse(tool, "category", @),
                 !.capabilities = IF "capabilities" \in DOMAIN tool
                                  THEN Stringify("array", tool.capabilities) ELSE @,
                 !.popularity_score = OrElse(tool, "popularity_score", @),
                 !.last_updated = now]
        ELSE rows[k]]

\* UpsertOne without the getToolByUrl lookup: every mapped tool is inserted
UpsertOneNoLookup(st, tool, now) ==
    [st EXCEPT !.rows = insertTool(st.rows, tool, now),
               !.discovered = @ + 1,
               !.tools = Append(@, tool)]

\* the body of the adapters' "for (const repo of repos)" loop for one item:
\* the state of the survey is [rows, discovered, updated, tools]
UpsertOne(st, tool, now) ==
    IF HasToolByUrl(st.rows, tool.url)
    THEN [st EXCEPT !.rows = updateTool(st.rows, getToolByUrl(st.rows, tool.url).id, tool, now),
                    !.updated = @ + 1,
                    !.tools = Append(@, tool)]
    ELSE [st EXCEPT !.rows = insertTool(st.rows, tool, now),
                    !.discovered = @ + 1,
                    !.tools = Append(@, tool)]

RECURSIVE UpsertAll(_, _, _)
UpsertAll(st, batch, now) ==
    IF batch = <<>> THEN st
    ELSE UpsertAll(UpsertOne(st, Head(batch), now), Tail(batch), now)

----------------------------------------------------------------------------
(* DatabaseManager: survey_runs *)

\* an absent (undefined -> NULL) value is the empty sequence, a present one <<v>>
Absent == <<>>

Present(v) == <<v>>

\* INSERT INTO survey_runs (source, items_discovered, items_updated, status, error_log, ...)
logSurveyRun(rows, run) ==
    Append(rows, [id |-> Len(rows) + 1,
                  source |-> run.source,
                  items_discovered |-> run.items_discovered,
                  items_updated |-> run.items_updated,
                  status |-> run.status,
                  error_log |-> run.error_log])

----------------------------------------------------------------------------
(* BaseSurveyor.run: the SurveyRun it logs *)

\* ReturnedRun with the status taken from the counts instead of the errors
ReturnedRunByCount(source, result) ==
    [source |-> source,
     items_discovered |-> result.discovered,
     items_updated |-> result.updated,
     status |-> IF result.discovered + result.updated = 0 THEN "partial" ELSE "success",
     error_log |-> IF Len(result.errors) > 0 THEN Present(Join(result.errors, "\n"))
                   ELSE Absent]

\* try branch: survey() returned `result`
ReturnedRun(source, result) ==
    [source |-> source,
     items_discovered |-> result.discovered,
     items_updated |-> result.updated,
     status |-> IF result.statsErrors > 0 THEN "partial" ELSE "success",
     error_log |-> IF Len(result.errors) > 0 THEN Present(Join(result.errors, "\n"))
                   ELSE Absent]

\* catch branch: survey() threw an Error with `message`
FailedRun(source, message) ==
    [source |-> source,
     items_discovered |-> 0,
     items_updated |-> 0,
     status |-> "failed",
     error_log |-> Present(message)]

----------------------------------------------------------------------------
(* Frames *)

\* run()/survey() of one surveyor: the locals of survey() (dim: the query
\* dimension being awaited; attempted: the dimensions whose fetch was awaited),
\* its outcome and the id of the survey_runs row that run() logged
NoFrame ==
    [pc |-> "none", dim |-> 0, discovered |-> 0, updated |-> 0, tools |-> <<>>,
     errors |-> <<>>, statsErrors |-> 0, attempted |-> 0, thrown |-> Absent,
     outcome |-> "none", row |-> 0]

StartFrame == [NoFrame EXCEPT !.pc = "start"]

\* runSurvey()/runOnDemand() of one caller: i is the loop index (from 1) or the
\* position of the named surveyor; results is the summary, in insertion order
\* (time: for the callback of a daily timer, the position of its configured time)
IdleCall ==
    [op |-> "idle", name |-> Absent, pc |-> "idle", i |-> 0, results |-> <<>>, time |-> 0]

IndexOf(names, n) == CHOOSE k \in 1..Len(names) : names[k] = n

Registered(names) == {names[k] : k \in 1..Len(names)}

\* the call runs the whole cycle: runSurvey() itself, start() and the callback
\* of a daily timer, which await it, or runOnDemand() without a name
IsCycle(cl) ==
    cl.op \in {"runSurvey", "start", "timer"} \/ (cl.op = "runOnDemand" /\ cl.name = Absent)

\* a run() invocation has begun and has not settled
InProgress(fr) == fr.pc \in {"start", "fetch", "returned", "threw"}

----------------------------------------------------------------------------
(* AgentOrchestrator: the daily schedule *)

\* config.survey_schedule.times, each "HH:MM" split into <<hours, minutes>>
ScheduleTimes == <<<<6, 0>>, <<14, 0>>>>

\* the seconds of a day (scheduled.setDate(scheduled.getDate() + 1))
DaySeconds == 86400

\* isRunning = false, scheduledTasks = [], no timer armed.  armed holds the
\* pending timers as [id, time, due]: time is the position of the configured
\* time, due the wall clock at which the timer fires.  afterStop tells that
\* stop() was called and no timer has been armed since; duringCycle holds
\* <<caller, i>> for every cycle that was in progress, at surveyor i, when
\* stop() was called.
NoSchedule ==
    [isRunning |-> FALSE, scheduledTasks |-> <<>>, armed |-> {}, nextId |-> 1,
     afterStop |-> FALSE, duringCycle |-> {}]

\* scheduleDaily: scheduled is today at hours:minutes, tomorrow if that has
\* passed (scheduled <= now)
NextOccurrence(now, time) ==
    LET scheduled == (now \div DaySeconds) * DaySeconds + time[1] * 3600 + time[2] * 60
    IN  IF scheduled <= now THEN scheduled + DaySeconds ELSE scheduled

\* scheduleDaily(): setTimeout(callback, scheduled - now), scheduledTasks.push(timeout)
scheduleDaily(sc, now, t) ==
    [sc EXCEPT !.armed = @ \cup {[id |-> sc.nextId, time |-> t,
                                  due |-> NextOccurrence(now, ScheduleTimes[t])]},
               !.scheduledTasks = Append(@, sc.nextId),
               !.nextId = @ + 1,
               !.afterStop = FALSE]

\* scheduleSurveys(): scheduleDaily() for the configured times from position t on
RECURSIVE scheduleSurveysFrom(_, _, _)
scheduleSurveysFrom(sc, now, t) ==
    IF t > Len(ScheduleTimes) THEN sc
    ELSE scheduleSurveysFrom(scheduleDaily(sc, now, t), now, t + 1)

scheduleSurveys(sc, now) == scheduleSurveysFrom(sc, now, 1)

\* stop(): returns at once when not running, else clearTimeout for every
\* entry of scheduledTasks, scheduledTasks = [], isRunning = false
stop(sc) ==
    IF ~sc.isRunning THEN sc
    ELSE [sc EXCEPT !.armed = {a \in @ : \A n \in 1..Len(sc.scheduledTasks) :
                                            sc.scheduledTasks[n] # a.id},
                    !.scheduledTasks = <<>>,
                    !.isRunning = FALSE]

----------------------------------------------------------------------------
(* Strings *)

\* String.prototype.includes
Includes(s, t) == \E i \in 0..(Len(s) - Len(t)) : SubSeq(s, i + 1, i + Len(t)) = t

\* String.prototype.startsWith
StartsWith(s, t) == Len(t) <= Len(s) /\ SubSeq(s, 1, Len(t)) = t

\* String.prototype.endsWith
EndsWith(s, t) == Len(t) <= Len(s) /\ SubSeq(s, Len(s) - Len(t) + 1, Len(s)) = t

\* the lower-case letter of every upper-case letter
LowerOf ==
    LET upper == "ABCDEFGHIJKLMNOPQRSTUVWXYZ"
        lower == "abcdefghijklmnopqrstuvwxyz"
    IN  [ch \in {SubSeq(upper, k, k) : k \in 1..Len(upper)} |->
            LET k == CHOOSE j \in 1..Len(upper) : SubSeq(upper, j, j) = ch
            IN  SubSeq(lower, k, k)]

\* String.prototype.toLowerCase (ASCII letters)
RECURSIVE ToLowerCase(_)
ToLowerCase(s) ==
    IF Len(s) = 0 THEN ""
    ELSE (IF SubSeq(s, 1, 1) \in DOMAIN LowerOf THEN LowerOf[SubSeq(s, 1, 1)]
          ELSE SubSeq(s, 1, 1))
         \o ToLowerCase(SubSeq(s, 2, Len(s)))

\* the positions of the character ch in s
Positions(s, ch) == {i \in 1..Len(s) : SubSeq(s, i, i) = ch}

Greatest(S) == CHOOSE x \in S : \A y \in S : y <= x

\* s.split('/').pop(): what follows the last '/'
LastSegment(s) ==
    IF Positions(s, "/") = {} THEN s
    ELSE SubSeq(s, Greatest(Positions(s, "/")) + 1, Len(s))

\* path.extname: from the last '.' of the last segment to the end; empty when
\* there is no '.' or the only '.' is the first character of the segment
extname(p) ==
    LET base == LastSegment(p)
        dots == Positions(base, ".")
    IN  IF dots = {} \/ Greatest(dots) = 1 THEN ""
        ELSE SubSeq(base, Greatest(dots), Len(base))

\* path.join(dir, entry) for an absolute dir and a plain entry name
join(dir, entry) == IF EndsWith(dir, "/") THEN dir \o entry ELSE dir \o "/" \o entry

\* Array.map(toLowerCase)
LowerAll(strs) == [i \in 1..Len(strs) |-> ToLowerCase(strs[i])]

\* Set.add of each of xs in turn, on a Set kept in insertion order
RECURSIVE SetAddAll(_, _)
SetAddAll(s, xs) ==
    IF xs = <<>> THEN s
    ELSE SetAddAll(IF \E i \in 1..Len(s) : s[i] = Head(xs) THEN s ELSE Append(s, Head(xs)),
                   Tail(xs))

\* Array.includes
Has(s, x) == \E i \in 1..Len(s) : s[i] = x

----------------------------------------------------------------------------
(* The file system under a project path *)

\* A directory entry is [name, stat, listable, entries, content]:
\*   stat      what statSync(fullPath) gives: "file", "dir", "other" (a socket,
\*             a device), or "error" when it throws (EACCES, a dangling link)
\*   listable  for a directory: readdirSync succeeds
\*   entries   for a directory: what readdirSync returns
\*   content   for a file: Absent when readFileSync throws, else
\*             Present([text, json, dependencies]) with the text of the file,
\*             whether JSON.parse accepts it, and the keys of its
\*             "dependencies" object
Text(text) == Present([text |-> text, json |-> FALSE, dependencies |-> {}])

Json(dependencies) == Present([text |-> "{}", json |-> TRUE, dependencies |-> dependencies])

File(name, content) ==
    [name |-> name, stat |-> "file", listable |-> FALSE, entries |-> <<>>, content |-> content]

Dir(name, entries) ==
    [name |-> name, stat |-> "dir", listable |-> TRUE, entries |-> entries, content |-> Absent]

LockedDir(name, entries) ==
    [name |-> name, stat |-> "dir", listable |-> FALSE, entries |-> entries, content |-> Absent]

NoStat(name) ==
    [name |-> name, stat |-> "error", listable |-> FALSE, entries |-> <<>>, content |-> Absent]

Other(name) ==
    [name |-> name, stat |-> "other", listable |-> FALSE, entries |-> <<>>, content |-> Absent]

\* the arguments of analyzeProject (projectName is optional) and the tree
\* that lies at projectPath when it is called
AnalysisInputs ==
    { \* the path does not exist, or cannot be read
      [tree |-> LockedDir("", <<>>), projectPath |-> "/home/u/app", projectName |-> Absent],
      \* a readable but empty directory
      [tree |-> Dir("", <<>>), projectPath |-> "/srv/readme/", projectName |-> Absent],
      \* a web application; what lies under .git and node_modules is skipped
      [tree |-> Dir("", <<Dir(".git", <<File("README.md", Text("search"))>>),
                         Dir("node_modules", <<File("requirements.txt", Text(""))>>),
                         File("package.json", Json({"react", "express"})),
                         File("README.md", Text("A Chat assistant with image search")),
                         Dir("src", <<File("app.tsx", Text(""))>>)>>),
       projectPath |-> "/home/u/app", projectName |-> Present("demo")],
      \* entries that cannot be read lie before and between the readable ones
      [tree |-> Dir("", <<NoStat("secret"),
                         LockedDir("private", <<File("go.mod", Text(""))>>),
                         File("package.json", Absent),
                         Other("socket"),
                         File("README.md", Absent),
                         Dir("lib", <<NoStat("cache"), File("main.py", Text(""))>>)>>),
       projectPath |-> "/home/u/app", projectName |-> Absent],
      \* files at the depths where the two walks end
      [tree |-> Dir("", <<File("package.json", Text("{")),
                         Dir("a", <<File("Readme.md", Text("Sentiment analysis")),
                                    Dir("b", <<File("lib.rs", Text("")),
                                               File("README.md", Text("translation")),
                                               Dir("c", <<File("Main.java", Text(""))>>)>>)>>)>>),
       projectPath |-> "/srv/readme/", projectName |-> Absent] }

----------------------------------------------------------------------------
(* PersonalizationEngine.analyzeProject *)

\* walkEntries as it would be with the outer try block only: an entry whose
\* statSync throws ends the walk of its directory
RECURSIVE walkDirectory(_, _, _, _), walkEntriesOuterTryOnly(_, _, _, _), walkEntries(_, _, _, _)
walkEntriesOuterTryOnly(entries, dir, maxDepth, currentDepth) ==
    IF entries = <<>> THEN <<>>
    ELSE LET entry == Head(entries)
             fullPath == join(dir, entry.name)
             rest == walkEntriesOuterTryOnly(Tail(entries), dir, maxDepth, currentDepth)
         IN  IF StartsWith(entry.name, ".") \/ entry.name \in {"node_modules", "vendor"}
             THEN rest
             ELSE IF entry.stat = "error" THEN <<>>
             ELSE IF entry.stat = "file"
             THEN <<[path |-> fullPath, content |-> entry.content]>> \o rest
             ELSE IF entry.stat = "dir"
             THEN walkDirectory(entry, fullPath, maxDepth, currentDepth + 1) \o rest
             ELSE rest

\* the "for (const entry of entries)" loop of walkDirectory: hidden entries,
\* node_modules and vendor are skipped, and so is an entry whose statSync throws
walkEntries(entries, dir, maxDepth, currentDepth) ==
    IF entries = <<>> THEN <<>>
    ELSE LET entry == Head(entries)
             fullPath == join(dir, entry.name)
             rest == walkEntries(Tail(entries), dir, maxDepth, currentDepth)
         IN  IF StartsWith(entry.name, ".") \/ entry.name \in {"node_modules", "vendor"}
             THEN rest
             ELSE IF entry.stat = "error" THEN rest
             ELSE IF entry.stat = "file"
             THEN <<[path |-> fullPath, content |-> entry.content]>> \o rest
             ELSE IF entry.stat = "dir"
             THEN walkDirectory(entry, fullPath, maxDepth, currentDepth + 1) \o rest
             ELSE rest

\* walkDirectory(dir, maxDepth, currentDepth) where `node` is what lies at dir.
\* A file is the pair of its path and of what readFileSync(path) will give.
walkDirectory(node, dir, maxDepth, currentDepth) ==
    IF currentDepth >= maxDepth THEN <<>>
    ELSE IF ~node.listable THEN <<>>
    ELSE walkEntries(node.entries, dir, maxDepth, currentDepth)

\* files.some(f => f.endsWith(suffix))
SomeEndsWith(files, suffix) == \E i \in 1..Len(files) : EndsWith(files[i].path, suffix)

\* files.find(f => f.endsWith(suffix)), which exists
FindEndsWith(files, suffix) ==
    files[CHOOSE i \in 1..Len(files) :
              /\ EndsWith(files[i].path, suffix)
              /\ \A j \in 1..(i - 1) : ~EndsWith(files[j].path, suffix)]

\* the frameworks read from package.json, in the order of the if statements;
\* nothing when readFileSync or JSON.parse throws
Frameworks(file) ==
    IF file.content = Absent \/ ~file.content[1].json THEN <<>>
    ELSE LET deps == file.content[1].dependencies
         IN  (IF "react" \in deps THEN <<"React">> ELSE <<>>)
             \o (IF "vue" \in deps THEN <<"Vue">> ELSE <<>>)
             \o (IF "angular" \in deps THEN <<"Angular">> ELSE <<>>)
             \o (IF "express" \in deps THEN <<"Express">> ELSE <<>>)
             \o (IF "next" \in deps THEN <<"Next.js">> ELSE <<>>)

\* the tech stack detectTechStack reads from `files`
StackOf(files) ==
    LET extensions == {ToLowerCase(extname(files[i].path)) : i \in 1..Len(files)}
    IN
    SetAddAll(<<>>,
        (IF SomeEndsWith(files, "package.json")
         THEN <<"JavaScript/TypeScript">> \o Frameworks(FindEndsWith(files, "package.json"))
         ELSE <<>>)
        \o (IF SomeEndsWith(files, "requirements.txt") \/ SomeEndsWith(files, "pyproject.toml")
            THEN <<"Python">> ELSE <<>>)
        \o (IF SomeEndsWith(files, "go.mod") THEN <<"Go">> ELSE <<>>)
        \o (IF SomeEndsWith(files, "Cargo.toml") THEN <<"Rust">> ELSE <<>>)
        \o (IF SomeEndsWith(files, "pom.xml") \/ SomeEndsWith(files, "build.gradle")
            THEN <<"Java">> ELSE <<>>)
        \o (IF ".ts" \in extensions \/ ".tsx" \in extensions
            THEN <<"TypeScript">> ELSE <<>>)
        \o (IF ".py" \in extensions THEN <<"Python">> ELSE <<>>)
        \o (IF ".java" \in extensions THEN <<"Java">> ELSE <<>>)
        \o (IF ".go" \in extensions THEN <<"Go">> ELSE <<>>)
        \o (IF ".rs" \in extensions THEN <<"Rust">> ELSE <<>>)
        \o (IF ".cpp" \in extensions \/ ".cc" \in extensions
            THEN <<"C++">> ELSE <<>>))

\* detectTechStack(projectPath): the walk goes three levels deep
detectTechStack(tree, projectPath) == StackOf(walkDirectory(tree, projectPath, 3, 0))

IsReadme(file) == Includes(ToLowerCase(file.path), "readme") /\ EndsWith(file.path, ".md")

\* the needs read from the README: the first file whose lower-cased path
\* includes 'readme' and whose path ends with '.md'; nothing when there is
\* none or when readFileSync throws
ReadmeNeeds(files) ==
    IF ~\E i \in 1..Len(files) : IsReadme(files[i]) THEN <<>>
    ELSE LET readmeFile == files[CHOOSE i \in 1..Len(files) :
                                     IsReadme(files[i]) /\ \A j \in 1..(i - 1) : ~IsReadme(files[j])]
         IN  IF readmeFile.content = Absent THEN <<>>
             ELSE LET content == ToLowerCase(readmeFile.content[1].text)
                  IN  (IF Includes(content, "chat") \/ Includes(content, "conversation")
                       THEN <<"LLM integration", "natural language processing">> ELSE <<>>)
                      \o (IF Includes(content, "image") \/ Includes(content, "vision")
                          THEN <<"computer vision", "image processing">> ELSE <<>>)
                      \o (IF Includes(content, "recommendation")
                          THEN <<"recommendation system", "personalization">> ELSE <<>>)
                      \o (IF Includes(content, "search")
                          THEN <<"semantic search", "embeddings">> ELSE <<>>)
                      \o (IF Includes(content, "analysis") \/ Includes(content, "analytics")
                          THEN <<"data analysis", "machine learning">> ELSE <<>>)
                      \o (IF Includes(content, "translation")
                          THEN <<"language translation">> ELSE <<>>)
                      \o (IF Includes(content, "sentiment")
                          THEN <<"sentiment analysis">> ELSE <<>>)

\* inferAINeeds(techStack, projectPath): the walk goes two levels deep
inferAINeeds(techStack, tree, projectPath) ==
    LET needs == SetAddAll(<<>>,
                     ReadmeNeeds(walkDirectory(tree, projectPath, 2, 0))
                     \o (IF Has(techStack, "React") \/ Has(techStack, "Vue")
                         THEN <<"frontend AI components">> ELSE <<>>)
                     \o (IF Has(techStack, "Python")
                         THEN <<"ML framework integration">> ELSE <<>>))
    IN  IF Len(needs) = 0 THEN <<"general AI capabilities", "automation">> ELSE needs

generateProjectDescription(techStack, projectPath) ==
    LET stack == IF Join(techStack, ", ") = "" THEN "Unknown stack" ELSE Join(techStack, ", ")
    IN  LastSegment(projectPath) \o " project using " \o stack

\* insertProject as an upsert keyed by path
insertProjectByPath(rows, project, now) ==
    IF \E k \in 1..Len(rows) : rows[k].path = project.path
    THEN [k \in 1..Len(rows) |->
             IF rows[k].path = project.path
             THEN [rows[k] EXCEPT !.name = project.name,
                                  !.description = project.description,
                                  !.tech_stack = project.tech_stack,
                                  !.ai_needs = project.ai_needs,
                                  !.last_analyzed = now]
             ELSE rows[k]]
    ELSE Append(rows, [id |-> Len(rows) + 1,
                       name |-> project.name,
                       path |-> project.path,
                       description |-> project.description,
                       tech_stack |-> project.tech_stack,
                       ai_needs |-> project.ai_needs,
                       last_analyzed |-> now])

\* INSERT INTO user_projects (name, path, description, tech_stack, ai_needs):
\* AUTOINCREMENT id, last_analyzed defaults to CURRENT_TIMESTAMP
insertProject(rows, project, now) ==
    Append(rows, [id |-> Len(rows) + 1,
                  name |-> project.name,
                  path |-> project.path,
                  description |-> project.description,
                  tech_stack |-> project.tech_stack,
                  ai_needs |-> project.ai_needs,
                  last_analyzed |-> now])

\* the project analyzeProject builds before it is saved
\* (name = projectName || projectPath.split('/').pop() || 'Unknown Project')
AnalyzedProject(tree, projectPath, projectName) ==
    LET techStack == detectTechStack(tree, projectPath)
    IN  [name |-> IF projectName # Absent /\ projectName[1] # "" THEN projectName[1]
                  ELSE IF LastSegment(projectPath) # "" THEN LastSegment(projectPath)
                  ELSE "Unknown Project",
         path |-> projectPath,
         description |-> generateProjectDescription(techStack, projectPath),
         tech_stack |-> techStack,
         ai_needs |-> inferAINeeds(techStack, tree, projectPath)]

\* AnalyzedProject of every input, computed once
Analyses ==
    [a \in AnalysisInputs |-> AnalyzedProject(a.tree, a.projectPath, a.projectName)]

\* no call of the engine has been made
NoEngine == [calls |-> 0, op |-> "none"]

\* no helper of BaseSurveyor has been called yet
NoHelper == [op |-> "none"]

----------------------------------------------------------------------------
(* PersonalizationEngine.generateRecommendations *)

\* A relevance score is an exact multiple of 1 / One: with One = 21000 the
\* four weights, popularity_score / 100 * 0.1 for a whole popularity_score and
\* matches / n * 0.4 for every n that divides 8400 are whole numbers.
One == 21000

\* const weights = { ai_needs: 0.4, tech_stack: 0.3, category: 0.2, popularity: 0.1 }
weights == [ai_needs |-> 8400, tech_stack |-> 6300, category |-> 4200, popularity |-> 2100]

\* the threshold of "if (relevance > 0.3)"
Threshold == 6300

\* getAllTools(1000)
ToolLimit == 1000

\* recommendations.slice(0, 20)
TopCount == 20

\* the members of a finite set of integers, largest first
RECURSIVE Descending(_)
Descending(S) ==
    IF S = {} THEN <<>>
    ELSE <<Greatest(S)>> \o Descending(S \ {Greatest(S)})

\* the rows whose column `key` is keys[1], then those of keys[2], ...
RECURSIVE Buckets(_, _, _)
Buckets(rows, key, keys) ==
    IF keys = <<>> THEN <<>>
    ELSE SelectSeq(rows, LAMBDA r : r[key] = Head(keys)) \o Buckets(rows, key, Tail(keys))

\* rows in descending order of the column `key`; rows with equal keys keep
\* their order (Array.prototype.sort is stable, and so is the sorter of
\* ORDER BY over rows scanned in rowid order)
SortDescending(rows, key) ==
    Buckets(rows, key, Descending({rows[i][key] : i \in 1..Len(rows)}))

\* SELECT * FROM ai_tools ORDER BY popularity_score DESC, last_updated DESC
\* LIMIT ? OFFSET 0
getAllTools(rows, limit) ==
    Take(SortDescending(SortDescending(rows, "last_updated"), "popularity_score"), limit)

\* getAllProjects().find(p => p.id === projectId): ids are unique, so the
\* order of getAllProjects does not matter
HasProject(rows, projectId) == \E k \in 1..Len(rows) : rows[k].id = projectId

FindProject(rows, projectId) == rows[CHOOSE k \in 1..Len(rows) : rows[k].id = projectId]

\* cap.includes(need) || need.includes(cap)
Overlap(a, b) == Includes(a, b) \/ Includes(b, a)

\* calculateRelevance(project, tool).  The arrays of a project row and of a
\* parsed tool row are never null; an absent, empty or zero field is falsy.
\* The sums are exact, where the code adds doubles: a double sum can differ
\* from the exact one in its last bit.
calculateRelevance(project, tool) ==
    LET needsLower == LowerAll(project.ai_needs)
        capsLower == LowerAll(tool.capabilities)
        matches == {i \in 1..Len(needsLower) :
                       \E j \in 1..Len(capsLower) : Overlap(capsLower[j], needsLower[i])}
        needs == (Cardinality(matches) * weights.ai_needs)
                     \div (IF Len(needsLower) > 1 THEN Len(needsLower) ELSE 1)
        stackLower == LowerAll(project.tech_stack)
        stack == IF /\ tool.language # Absent
                    /\ tool.language[1] # ""
                    /\ \E i \in 1..Len(stackLower) :
                           Overlap(ToLowerCase(tool.language[1]), stackLower[i])
                 THEN weights.tech_stack ELSE 0
        popularity == IF tool.popularity_score # 0
                      THEN (tool.popularity_score * weights.popularity) \div 100 ELSE 0
        category == IF /\ tool.category # Absent
                       /\ tool.category[1] # ""
                       /\ \/ Includes(Join(needsLower, " "), ToLowerCase(tool.category[1]))
                          \/ Includes(ToLowerCase(tool.category[1]), "general")
                    THEN weights.category ELSE 0
        score == needs + stack + popularity + category
    IN  IF score > One THEN One ELSE score

\* the threshold test with >= in place of >
QualifiesFromThreshold(relevance) == relevance >= Threshold

\* if (relevance > 0.3)
Qualifies(relevance) == relevance > Threshold

\* the Recommendation built for a tool that qualifies
RecommendationFor(project, tool) ==
    [tool_id |-> tool.id,
     user_project_id |-> project.id,
     relevance_score |-> calculateRelevance(project, tool),
     status |-> "pending"]

\* insertRecommendation that replaces the pending rows of the project: the
\* first insert of a call deletes them
insertRecommendationsReplacing(rows, recs, now) ==
    LET kept == IF recs = <<>> THEN rows
                ELSE SelectSeq(rows, LAMBDA r : r.user_project_id # recs[1].user_project_id)
        last == IF rows = <<>> THEN 0 ELSE rows[Len(rows)].id
    IN  kept \o [k \in 1..Len(recs) |->
                    [id |-> last + k,
                     tool_id |-> recs[k].tool_id,
                     user_project_id |-> recs[k].user_project_id,
                     relevance_score |-> recs[k].relevance_score,
                     status |-> recs[k].status,
                     created_at |-> now]]

\* INSERT INTO recommendations (tool_id, user_project_id, relevance_score,
\* reason, status) for each of `recs` in turn: AUTOINCREMENT id, created_at
\* defaults to CURRENT_TIMESTAMP
insertRecommendations(rows, recs, now) ==
    rows \o [k \in 1..Len(recs) |->
                [id |-> Len(rows) + k,
                 tool_id |-> recs[k].tool_id,
                 user_project_id |-> recs[k].user_project_id,
                 relevance_score |-> recs[k].relevance_score,
                 status |-> recs[k].status,
                 created_at |-> now]]

\* the statuses of a recommendation that getRecommendations is asked for
Statuses == {"pending", "accepted"}

\* the object better-sqlite3 builds for one row of SELECT r.*, t.*: one
\* property per column name, set in column order, so that a column of t
\* replaces the column of r that has its name
JoinedRow(r, t) ==
    [name \in DOMAIN r \cup DOMAIN t |-> IF name \in DOMAIN t THEN t[name] ELSE r[name]]

\* WHERE r.status = ? [AND r.user_project_id = ?]: `if (projectId)` leaves
\* the second condition out for undefined and for 0
Selected(r, projectId, status) ==
    /\ r.status = status
    /\ (projectId # Absent /\ projectId[1] # 0) => r.user_project_id = projectId[1]

\* getRecommendations(projectId, status): JOIN ai_tools t ON r.tool_id = t.id,
\* ORDER BY r.relevance_score DESC, and the Recommendation mapped from each
\* row object
getRecommendations(recs, catalog, projectId, status) ==
    LET joinable == SelectSeq(recs, LAMBDA r : /\ Selected(r, projectId, status)
                                                /\ \E k \in 1..Len(catalog) :
                                                      catalog[k].id = r.tool_id)
        ordered == SortDescending(joinable, "relevance_score")
    IN  [n \in 1..Len(ordered) |->
            LET t == catalog[CHOOSE k \in 1..Len(catalog) : catalog[k].id = ordered[n].tool_id]
                row == JoinedRow(ordered[n], t)
            IN  [id |-> row.id,
                 tool_id |-> row.tool_id,
                 user_project_id |-> row.user_project_id,
                 relevance_score |-> row.relevance_score,
                 status |-> row.status,
                 created_at |-> row.created_at]]

\* recommendations.sort((a, b) => b.relevance_score - a.relevance_score)
\* and slice(0, 20)
Ranked(recs) == Take(SortDescending(recs, "relevance_score"), TopCount)

\* generateRecommendations(projectId) for a project that exists: the rows of
\* the table afterwards and the array returned.  The loop body runs for the
\* tools in the order of getAllTools, so the rows are appended in that order.
Generated(project, catalog, rows, now) ==
    LET allTools == getAllTools(catalog, ToolLimit)
        scored == [k \in 1..Len(allTools) |-> RecommendationFor(project, allTools[k])]
        recs == SelectSeq(scored, LAMBDA r : Qualifies(r.relevance_score))
        after == insertRecommendations(rows, recs, now)
        saved == SubSeq(after, Len(rows) + 1, Len(after))
    IN  [rows |-> after, result |-> Ranked(saved)]

----------------------------------------------------------------------------
(* AgentOrchestrator.initializeSurveyors: the enabled sources, in the fixed order *)

RECURSIVE Enabled(_, _)
Enabled(order, on) ==
    IF order = <<>> THEN <<>>
    ELSE IF Head(order) \in on THEN <<Head(order)>> \o Enabled(Tail(order), on)
    ELSE Enabled(Tail(order), on)

initializeSurveyors(on) == Enabled(SurveyorOrder, on)

\* the state after the constructor, for the data_sources configurations `configs`
InitWith(configs) ==
    /\ tools = <<>>
    /\ survey_runs = <<>>
    /\ clock = 0
    /\ \E on \in configs : surveyors = initializeSurveyors(on)
    /\ throwing \in {t \in SUBSET Registered(surveyors) : Cardinality(t) <= 1}
    /\ apiKey \in IF "youtube" \in Registered(surveyors) THEN BOOLEAN ELSE {FALSE}
    /\ call = [c \in Callers |-> IdleCall]
    /\ inv = [c \in Callers |-> [k \in 1..Len(surveyors) |-> NoFrame]]
    /\ net = 0
    /\ fw = [pc |-> "off"]
    /\ sched = NoSchedule
    /\ user_projects = <<>>
    /\ recommendations = <<>>
    /\ engine = NoEngine
    /\ helper = NoHelper

Init == InitWith({{"huggingface", "github"}, {"youtube"}, {"arxiv"}})

----------------------------------------------------------------------------
(* The adapters' survey() *)

\* what the catch block of survey() pushes on errors
ErrorEntry(a, d, message) ==
    IF a = "huggingface" THEN message
    ELSE Dimensions(a)[d] \o ": " \o message

\* HuggingFaceSurveyor.survey has one try block around both surveyModels and
\* surveySpaces: the catch is followed by the return.  The other surveyors
\* catch inside their for loop, which goes on with the next dimension.
NextDimAfterError(a, d) ==
    IF a = "huggingface" THEN Len(Dimensions(a)) + 1 ELSE d + 1

\* the frame once dimension next - 1 has been dealt with: await the next one,
\* or return {tools, stats: {discovered, updated, errors: errors.length}, errors}
Advance(a, fr, next) ==
    IF next <= Len(Dimensions(a))
    THEN [fr EXCEPT !.dim = next, !.pc = "fetch", !.attempted = @ + 1]
    ELSE [fr EXCEPT !.dim = next, !.pc = "returned", !.outcome = "returned",
                    !.statsErrors = Len(fr.errors)]

\* the page of dimension fr.dim arrived: the upsert loop over its items
PageDone(a, fr, rows, page, now) ==
    LET st == UpsertAll([rows |-> rows, discovered |-> fr.discovered,
                         updated |-> fr.updated, tools |-> fr.tools], page, now)
    IN  [rows |-> st.rows,
         frame |-> Advance(a, [fr EXCEPT !.discovered = st.discovered,
                                         !.updated = st.updated,
                                         !.tools = st.tools],
                           fr.dim + 1)]

\* PageFailed with a catch block that re-throws: survey() rejects
PageFailedRethrow(a, fr, message) ==
    [fr EXCEPT !.pc = "threw", !.outcome = "threw", !.thrown = Present(message)]

\* fetching or mapping dimension fr.dim threw `message`
PageFailed(a, fr, message) ==
    Advance(a, [fr EXCEPT !.errors = Append(@, ErrorEntry(a, fr.dim, message))],
            NextDimAfterError(a, fr.dim))

\* PageBroken that counts the item whose store call threw as discovered
PageBrokenCounted(a, fr, rows, done, now, message) ==
    LET st == UpsertAll([rows |-> rows, discovered |-> fr.discovered,
                         updated |-> fr.updated, tools |-> fr.tools], done, now)
    IN  [rows |-> st.rows,
         frame |-> PageFailed(a, [fr EXCEPT !.discovered = st.discovered + 1,
                                            !.updated = st.updated,
                                            !.tools = st.tools],
                              message)]

\* the page of dimension fr.dim arrived and a store call threw `message` for
\* the item that follows the items `done`: these are upserted and counted,
\* that item is neither written nor counted, and the catch block takes over
PageBroken(a, fr, rows, done, now, message) ==
    LET st == UpsertAll([rows |-> rows, discovered |-> fr.discovered,
                         updated |-> fr.updated, tools |-> fr.tools], done, now)
    IN  [rows |-> st.rows,
         frame |-> PageFailed(a, [fr EXCEPT !.discovered = st.discovered,
                                            !.updated = st.updated,
                                            !.tools = st.tools],
                              message)]

\* SurveyBegin without the API key check of the video adapter: its queries
\* are sent with whatever process.env.YOUTUBE_API_KEY holds
SurveyBeginNoKeyCheck(a, fr) ==
    IF a \in throwing
    THEN [fr EXCEPT !.pc = "threw", !.outcome = "threw",
                    !.thrown = Present("survey failed")]
    ELSE Advance(a, fr, 1)

\* survey() is called: it throws, returns at once (the video adapter without
\* its API key) or runs to the await of its first dimension
SurveyBegin(a, fr) ==
    IF a \in throwing
    THEN [fr EXCEPT !.pc = "threw", !.outcome = "threw",
                    !.thrown = Present("survey failed")]
    ELSE IF a = "youtube" /\ ~apiKey
    THEN [fr EXCEPT !.pc = "returned", !.outcome = "returned", !.statsErrors = 1,
                    !.errors = <<"YouTube API key not configured">>]
    ELSE Advance(a, fr, 1)

----------------------------------------------------------------------------
(* The synchronous continuations of one caller.  m = [cl, fs, log, sched,   *)
(* now]: the caller's frame, its run() frames, the survey_runs table, the    *)
(* schedule and the wall clock at which the continuation runs.               *)

SurveyRunOf(a, fr) ==
    IF fr.outcome = "threw" THEN FailedRun(a, fr.thrown[1]) ELSE ReturnedRun(a, fr)

\* LogRun with a catch block that re-throws without logging
LogRunReturnedOnly(m, k) ==
    IF m.fs[k].outcome = "threw"
    THEN [m EXCEPT !.fs[k].pc = "settled"]
    ELSE [m EXCEPT !.log = logSurveyRun(m.log, SurveyRunOf(surveyors[k], m.fs[k])),
                   !.fs[k].pc = "settled",
                   !.fs[k].row = Len(m.log) + 1]

\* run() after survey() settled: this.db.logSurveyRun(...), then return or re-throw
LogRun(m, k) ==
    [m EXCEPT !.log = logSurveyRun(m.log, SurveyRunOf(surveyors[k], m.fs[k])),
              !.fs[k].pc = "settled",
              !.fs[k].row = Len(m.log) + 1]

\* Resume without the try/catch of runSurvey(): the error leaves the loop
ResumeNoCatch(cl, a, outcome) ==
    IF outcome = "threw" THEN [cl EXCEPT !.pc = "threw"]
    ELSE IF IsCycle(cl)
    THEN [cl EXCEPT !.results = Append(@, <<a, "success">>), !.i = @ + 1, !.pc = "loop"]
    ELSE [cl EXCEPT !.pc = "done"]

\* runSurvey(): results[name] = 'success' | 'failed' (the catch swallows the
\* error), then the next iteration; runOnDemand(name): the outcome of run() is
\* the outcome of the call
Resume(cl, a, outcome) ==
    IF IsCycle(cl)
    THEN [cl EXCEPT !.results = Append(@, <<a, IF outcome = "threw" THEN "failed" ELSE "success">>),
                    !.i = @ + 1,
                    !.pc = "loop"]
    ELSE [cl EXCEPT !.pc = IF outcome = "threw" THEN "threw" ELSE "done"]

\* surveyor.run() called without await: the loop goes on at once
AwaitRunForgotten(cl) ==
    IF IsCycle(cl) THEN [cl EXCEPT !.pc = "loop", !.i = @ + 1] ELSE [cl EXCEPT !.pc = "done"]

\* "await surveyor.run()": the caller is suspended until run() settles
AwaitRun(cl) == [cl EXCEPT !.pc = "run"]

\* the caller calls run() of surveyor k, which calls survey()
CallRun(m, k) ==
    [m EXCEPT !.cl = AwaitRun(m.cl),
              !.fs[k] = SurveyBegin(surveyors[k], StartFrame)]

\* when survey() of frame k has settled, run() logs and its awaiting caller resumes
SettleIfDone(m, k) ==
    IF m.fs[k].pc \in {"returned", "threw"}
    THEN LET logged == LogRun(m, k)
         IN  IF logged.cl.pc = "run" /\ logged.cl.i = k
             THEN [logged EXCEPT !.cl = Resume(logged.cl, surveyors[k], m.fs[k].outcome)]
             ELSE logged
    ELSE m

\* this.sleep(5000): the stagger between two surveyors, in seconds
StaggerSeconds == 5

\* LoopTarget without the stagger: run() is called at once in every iteration
LoopTargetNoStagger(i, n) ==
    IF i > n THEN "done" ELSE "run"

\* what the loop does at the top of iteration i: leave the loop, sleep the
\* stagger interval (i > 0 in the code's 0-based count), or call run() at once
LoopTarget(i, n) ==
    IF i > n THEN "done"
    ELSE IF i > 1 THEN "stagger"
    ELSE "run"

\* runSurvey() returned to the caller that awaits it: start() goes on with
\* scheduleSurveys(), the callback of a daily timer with scheduleDaily()
Returned(m) ==
    IF m.cl.op = "start" THEN [m EXCEPT !.sched = scheduleSurveys(m.sched, m.now)]
    ELSE IF m.cl.op = "timer" THEN [m EXCEPT !.sched = scheduleDaily(m.sched, m.now, m.cl.time)]
    ELSE m

\* the for loop of runSurvey() from the top of iteration cl.i to its next await
RECURSIVE Continue(_)
Continue(m) ==
    IF m.cl.pc = "loop"
    THEN LET target == LoopTarget(m.cl.i, Len(surveyors))
         IN  IF target = "run"
             THEN Continue(SettleIfDone(CallRun(m, m.cl.i), m.cl.i))
             ELSE IF target = "done"
             THEN Returned([m EXCEPT !.cl.pc = target])
             ELSE [m EXCEPT !.cl.pc = target]
    ELSE m

\* the machine of caller c for a continuation that runs at wall clock `now`
MachineAt(c, now) ==
    [cl |-> call[c], fs |-> inv[c], log |-> survey_runs, sched |-> sched, now |-> now]

Machine(c) == MachineAt(c, clock)

\* the caller's part of the next state
Becomes(c, m) ==
    /\ call' = [call EXCEPT ![c] = m.cl]
    /\ inv' = [inv EXCEPT ![c] = m.fs]
    /\ survey_runs' = m.log
    /\ sched' = m.sched

----------------------------------------------------------------------------
(* AgentOrchestrator.runSurvey / runOnDemand *)

\* a new call takes the first frame not yet used ("none" when all are)
FirstIdle(cl) ==
    IF \A k \in 1..Len(CallerOrder) : cl[CallerOrder[k]].op # "idle" THEN NoCall
    ELSE CallerOrder[CHOOSE k \in 1..Len(CallerOrder) :
                        /\ cl[CallerOrder[k]].op = "idle"
                        /\ \A j \in 1..(k - 1) : cl[CallerOrder[j]].op # "idle"]

\* runSurvey() is called: the for loop runs to its first await
CallRunSurvey(c) ==
    /\ c = FirstIdle(call)
    /\ Becomes(c, Continue([Machine(c) EXCEPT
                               !.cl = [IdleCall EXCEPT !.op = "runSurvey", !.pc = "loop", !.i = 1]]))
    /\ UNCHANGED <<tools, clock, surveyors, throwing, apiKey, helper, user_projects, recommendations, engine, net, fw>>

\* runOnDemand that ignores the name and always runs every surveyor
runOnDemandAll(m, arg) ==
    Continue([m EXCEPT !.cl = [IdleCall EXCEPT !.op = "runOnDemand", !.name = arg,
                                                !.pc = "loop", !.i = 1]])

\* runOnDemand(surveyorName?) is called
runOnDemand(m, arg) ==
    IF arg = Absent
    THEN \* await this.runSurvey()
         Continue([m EXCEPT !.cl = [IdleCall EXCEPT !.op = "runOnDemand", !.pc = "loop", !.i = 1]])
    ELSE IF arg[1] \notin Registered(surveyors)
    THEN \* throw new Error(`Surveyor '${surveyorName}' not found`)
         [m EXCEPT !.cl = [IdleCall EXCEPT !.op = "runOnDemand", !.name = arg, !.pc = "threw"]]
    ELSE \* await surveyor.run()
         LET k == IndexOf(surveyors, arg[1])
         IN  SettleIfDone(CallRun([m EXCEPT !.cl = [IdleCall EXCEPT !.op = "runOnDemand",
                                                                   !.name = arg, !.i = k]], k), k)

\* a cycle is in progress in another call
OtherCycleInProgress(c) ==
    \E d \in Callers \ {c} : IsCycle(call[d]) /\ call[d].pc \in {"run", "stagger"}

\* CallRunOnDemand behind a run-lock: a call is rejected while a cycle is in progress
CallRunOnDemandLocked(c, arg) ==
    /\ c = FirstIdle(call)
    /\ Becomes(c, IF OtherCycleInProgress(c)
                  THEN [Machine(c) EXCEPT !.cl = [IdleCall EXCEPT !.op = "runOnDemand",
                                                                  !.name = arg, !.pc = "threw"]]
                  ELSE runOnDemand(Machine(c), arg))
    /\ UNCHANGED <<tools, clock, surveyors, throwing, apiKey, helper, user_projects, recommendations, engine, net, fw>>

CallRunOnDemand(c, arg) ==
    /\ c = FirstIdle(call)
    /\ Becomes(c, runOnDemand(Machine(c), arg))
    /\ UNCHANGED <<tools, clock, surveyors, throwing, apiKey, helper, user_projects, recommendations, engine, net, fw>>

\* await this.sleep(5000) is over, the stagger interval later on the wall
\* clock: surveyor.run() is called
StaggerDone(c) ==
    /\ call[c].pc = "stagger"
    /\ clock' = clock + StaggerSeconds
    /\ Becomes(c, Continue(SettleIfDone(CallRun(MachineAt(c, clock + StaggerSeconds),
                                                 call[c].i), call[c].i)))
    /\ UNCHANGED <<tools, surveyors, throwing, apiKey, helper, user_projects, recommendations, engine, net, fw>>

\* the await of one query dimension settles with a page of mapped tools
DimensionFetched(c, k) ==
    /\ inv[c][k].pc = "fetch"
    /\ \E page \in Batches(surveyors[k], inv[c][k].dim) :
          /\ net + Len(page) <= MaxEvents
          /\ net' = net + Len(page)
          /\ LET r == PageDone(surveyors[k], inv[c][k], tools, page, clock)
             IN  /\ tools' = r.rows
                 /\ Becomes(c, Continue(SettleIfDone([Machine(c) EXCEPT !.fs[k] = r.frame], k)))
    /\ UNCHANGED <<clock, surveyors, throwing, apiKey, helper, user_projects, recommendations, engine, fw>>

\* the await of one query dimension settles with an error
DimensionFailed(c, k) ==
    /\ inv[c][k].pc = "fetch"
    /\ net < MaxEvents
    /\ net' = net + 1
    /\ \E message \in FetchErrors :
          Becomes(c, Continue(SettleIfDone(
              [Machine(c) EXCEPT !.fs[k] = PageFailed(surveyors[k], inv[c][k], message)], k)))
    /\ UNCHANGED <<tools, clock, surveyors, throwing, apiKey, helper, user_projects, recommendations, engine, fw>>

\* the await of one query dimension settles with a page of mapped tools, and
\* getToolByUrl, updateTool or insertTool throws for the item after `done`
\* (at the first item of a page it leaves what a failed fetch leaves, but for
\* the message)
DimensionUpsertFailed(c, k) ==
    /\ inv[c][k].pc = "fetch"
    /\ \E done \in Batches(surveyors[k], inv[c][k].dim), message \in StoreErrors :
          /\ Len(done) >= 1
          /\ net + Len(done) + 1 <= MaxEvents
          /\ net' = net + Len(done) + 1
          /\ LET r == PageBroken(surveyors[k], inv[c][k], tools, done, clock, message)
             IN  /\ tools' = r.rows
                 /\ Becomes(c, Continue(SettleIfDone([Machine(c) EXCEPT !.fs[k] = r.frame], k)))
    /\ UNCHANGED <<clock, surveyors, throwing, apiKey, helper, user_projects, recommendations, engine, fw>>

\* the wall clock advances while a fetch is outstanding
Tick ==
    /\ \E c \in Callers, k \in 1..Len(surveyors) : inv[c][k].pc = "fetch"
    /\ net < MaxEvents
    /\ net' = net + 1
    /\ clock' = clock + 1
    /\ UNCHANGED <<tools, survey_runs, surveyors, throwing, apiKey, helper, user_projects, recommendations, engine, call, inv, fw, sched>>

Next ==
    \/ \E c \in Callers : CallRunSurvey(c)
    \/ \E c \in Callers, arg \in {Absent} \cup {Present(n) : n \in SurveyorNames} :
          CallRunOnDemand(c, arg)
    \/ \E c \in Callers : StaggerDone(c)
    \/ \E c \in Callers, k \in 1..Len(surveyors) : DimensionFetched(c, k)
    \/ \E c \in Callers, k \in 1..Len(surveyors) : DimensionFailed(c, k)
    \/ \E c \in Callers, k \in 1..Len(surveyors) : DimensionUpsertFailed(c, k)
    \/ Tick

Spec == Init /\ [][Next]_vars

----------------------------------------------------------------------------
(* AgentOrchestrator.start / stop and the daily timers (SpecSched) *)

\* the cycles in progress, each with the position of the surveyor it is at
CyclesInProgress ==
    {<<c, call[c].i>> : c \in {d \in Callers : IsCycle(call[d]) /\ call[d].pc \in {"run", "stagger"}}}

\* start(): nothing when already running; else isRunning = true and
\* await this.runSurvey(), then scheduleSurveys()
start(c) ==
    /\ c = FirstIdle(call)
    /\ ~sched.isRunning
    /\ Becomes(c, Continue([Machine(c) EXCEPT
                               !.sched.isRunning = TRUE,
                               !.cl = [IdleCall EXCEPT !.op = "start", !.pc = "loop", !.i = 1]]))
    /\ UNCHANGED <<tools, clock, surveyors, throwing, apiKey, helper, user_projects, recommendations, engine, net, fw>>

\* Stop that also abandons the cycles in progress
StopAborting ==
    /\ sched' = [stop(sched) EXCEPT !.afterStop = TRUE,
                                    !.duringCycle = @ \cup CyclesInProgress]
    /\ call' = [c \in Callers |->
                   IF IsCycle(call[c]) /\ call[c].pc \in {"run", "stagger"}
                   THEN [call[c] EXCEPT !.pc = "done"] ELSE call[c]]
    /\ UNCHANGED <<tools, survey_runs, clock, surveyors, throwing, apiKey, helper, user_projects, recommendations, engine, inv, net, fw>>

\* stop() is called
Stop ==
    /\ sched' = [stop(sched) EXCEPT !.afterStop = TRUE,
                                    !.duringCycle = @ \cup CyclesInProgress]
    /\ UNCHANGED <<tools, survey_runs, clock, surveyors, throwing, apiKey, helper, user_projects, recommendations, engine, call, inv, net, fw>>

Max(a, b) == IF a >= b THEN a ELSE b

\* the armed timer `a` fires, no other being due before it: its callback
\* awaits runSurvey(), then scheduleDaily()
TimerFired(c, a) ==
    /\ c = FirstIdle(call)
    /\ a \in sched.armed
    /\ \A b \in sched.armed : a.due <= b.due
    /\ clock' = Max(clock, a.due)
    /\ Becomes(c, Continue([MachineAt(c, Max(clock, a.due)) EXCEPT
                               !.sched.armed = @ \ {a},
                               !.cl = [IdleCall EXCEPT !.op = "timer", !.time = a.time,
                                                       !.pc = "loop", !.i = 1]]))
    /\ UNCHANGED <<tools, surveyors, throwing, apiKey, helper, user_projects, recommendations, engine, net, fw>>

\* two sources are enabled, the second being the video source without its API key
InitSched == InitWith({{"huggingface", "youtube"}}) /\ ~apiKey

NextSched ==
    \/ \E c \in Callers : start(c)
    \/ Stop
    \/ \E c \in Callers : \E a \in sched.armed : TimerFired(c, a)
    \/ \E c \in Callers : StaggerDone(c)
    \/ \E c \in Callers, k \in 1..Len(surveyors) : DimensionFetched(c, k)
    \/ \E c \in Callers, k \in 1..Len(surveyors) : DimensionFailed(c, k)
    \/ Tick

SpecSched == InitSched /\ [][NextSched]_vars

----------------------------------------------------------------------------
(* BaseSurveyor.fetchWithRetry (SpecFetch) *)

\* maxRetries: number = 3
MaxRetries == 3

Digits == <<"0", "1", "2", "3", "4", "5", "6", "7", "8", "9">>

IsDigit(ch) == \E d \in 1..Len(Digits) : Digits[d] = ch

DigitValue(ch) == (CHOOSE d \in 1..Len(Digits) : Digits[d] = ch) - 1

\* String(n) of a non-negative integer, as in a template string
RECURSIVE Str(_)
Str(n) == IF n < 10 THEN Digits[n + 1] ELSE Str(n \div 10) \o Digits[(n % 10) + 1]

\* Math.pow(2, i)
RECURSIVE Pow2(_)
Pow2(i) == IF i = 0 THEN 1 ELSE 2 * Pow2(i - 1)

\* a header value is the sequence of the characters of the string
HttpDate ==
    <<"W", "e", "d", ",", " ", "2", "1", " ", "O", "c", "t", " ", "2", "0", "2", "6", " ",
      "0", "7", ":", "2", "8", ":", "0", "0", " ", "G", "M", "T">>

\* response.headers.get('Retry-After'): null, or the value a server can send
\* (RFC 9110: delay-seconds or an HTTP-date; a field value may be empty)
RetryAfterValues ==
    {Absent,
     Present(<<>>),
     Present(<<"0">>),
     Present(<<"2">>),
     Present(<<"2", "1", "4", "7", "4", "8", "4">>),
     Present(HttpDate)}

RECURSIVE TrimStart(_)
TrimStart(chars) ==
    IF chars # <<>> /\ Head(chars) = " " THEN TrimStart(Tail(chars)) ELSE chars

RECURSIVE LeadingDigits(_)
LeadingDigits(chars) ==
    IF chars = <<>> \/ ~IsDigit(Head(chars)) THEN <<>>
    ELSE <<Head(chars)>> \o LeadingDigits(Tail(chars))

RECURSIVE Decimal(_, _)
Decimal(digits, acc) ==
    IF digits = <<>> THEN acc
    ELSE Decimal(Tail(digits), acc * 10 + DigitValue(Head(digits)))

\* parseInt(string) for a string without a 0x prefix: leading white space and
\* a sign are skipped, the longest prefix of decimal digits is the value, and
\* the result is NaN when there is none
ParseInt(chars) ==
    LET t == TrimStart(chars)
        signed == t # <<>> /\ Head(t) \in {"-", "+"}
        ds == LeadingDigits(IF signed THEN Tail(t) ELSE t)
    IN  IF ds = <<>> THEN [nan |-> TRUE, seconds |-> 0]
        ELSE [nan |-> FALSE,
              seconds |-> IF signed /\ Head(t) = "-" THEN 0 - Decimal(ds, 0) ELSE Decimal(ds, 0)]

\* waitTime of the 429 branch, which is seconds * 1000 (NaN * 1000 is NaN):
\* retryAfter ? parseInt(retryAfter) * 1000 : Math.pow(2, i) * 1000
\* (null and the empty string are falsy)
RateLimitWait(retryAfter, i) ==
    IF retryAfter # Absent /\ retryAfter[1] # <<>> THEN ParseInt(retryAfter[1])
    ELSE [nan |-> FALSE, seconds |-> Pow2(i)]

\* waitTime of the catch block: Math.pow(2, i) * 1000
BackoffWait(i) == [nan |-> FALSE, seconds |-> Pow2(i)]

\* the largest delay of a timer, in milliseconds (a signed 32-bit integer)
TIMEOUT_MAX == 2147483647

\* sleep(ms) = setTimeout(resolve, ms): the milliseconds after which the timer
\* fires.  A delay that is NaN, below 1 or above TIMEOUT_MAX is set to 1.
\* (ms = seconds * 1000 exceeds TIMEOUT_MAX iff seconds exceeds TIMEOUT_MAX \div 1000)
TimeoutDelay(w) ==
    IF w.nan \/ w.seconds > TIMEOUT_MAX \div 1000 \/ w.seconds * 1000 < 1 THEN 1
    ELSE w.seconds * 1000

\* what one fetch() can settle with: a Response or a rejection
Response(status, statusText, retryAfter) ==
    [kind |-> "response", status |-> status, statusText |-> statusText,
     retryAfter |-> retryAfter, message |-> ""]

Rejection(message) ==
    [kind |-> "exception", status |-> 0, statusText |-> "", retryAfter |-> Absent,
     message |-> message]

Outcomes ==
    {Response(200, "OK", Absent),
     Response(500, "Internal Server Error", Absent),
     Rejection("fetch failed")}
    \cup {Response(429, "Too Many Requests", h) : h \in RetryAfterValues}

\* response.ok
IsOk(o) == o.kind = "response" /\ o.status \in 200..299

IsRateLimited(o) == o.kind = "response" /\ o.status = 429

\* the message of the Error the catch block sees for a failed attempt
ErrorMessage(o) ==
    IF o.kind = "exception" THEN o.message
    ELSE "HTTP " \o Str(o.status) \o ": " \o o.statusText

\* the frame of fetchWithRetry: i and lastError are its locals, requests counts
\* the fetch() calls, history holds what they settled with, slept the delay
\* of every completed sleep, wait the delay of the pending one
FetchIdle ==
    [pc |-> "idle", maxRetries |-> 0, i |-> 0, lastError |-> Absent, requests |-> 0,
     history |-> <<>>, slept |-> <<>>, wait |-> 0, result |-> Absent]

\* the loop condition i < maxRetries: the next fetch(), or the throw after the loop
LoopCheck(fr) ==
    IF fr.i < fr.maxRetries
    THEN [fr EXCEPT !.pc = "request", !.requests = @ + 1]
    ELSE [fr EXCEPT !.pc = "raised",
                    !.result = IF fr.lastError # Absent THEN fr.lastError
                               ELSE Present("Unknown error during fetch")]

\* ContinueLoop of a loop that does not count the attempt
ContinueLoopSameAttempt(fr) == LoopCheck(fr)

\* the end of an iteration (continue, or the end of the catch block): i++
ContinueLoop(fr) == LoopCheck([fr EXCEPT !.i = @ + 1])

\* the catch block
Caught(fr, message) ==
    LET fr1 == [fr EXCEPT !.lastError = Present(message)]
    IN  IF fr.i < fr.maxRetries - 1
        THEN [fr1 EXCEPT !.pc = "sleep", !.wait = TimeoutDelay(BackoffWait(fr.i))]
        ELSE ContinueLoop(fr1)

\* the body of the try block once fetch() has settled with o
Received(fr, o) ==
    LET fr1 == [fr EXCEPT !.history = Append(@, o)]
    IN  IF IsOk(o) THEN [fr1 EXCEPT !.pc = "returned"]
        ELSE IF IsRateLimited(o)
        THEN [fr1 EXCEPT !.pc = "sleep",
                         !.wait = TimeoutDelay(RateLimitWait(o.retryAfter, fr.i))]
        ELSE Caught(fr1, ErrorMessage(o))

\* the timer of sleep() fired
SleepOver(fr) == ContinueLoop([fr EXCEPT !.slept = Append(@, fr.wait), !.wait = 0])

\* fetchWithRetry on its own: nothing else of the process runs
InitFetch ==
    /\ tools = <<>>
    /\ survey_runs = <<>>
    /\ clock = 0
    /\ surveyors = initializeSurveyors({})
    /\ throwing = {}
    /\ apiKey = FALSE
    /\ call = [c \in Callers |-> IdleCall]
    /\ inv = [c \in Callers |-> <<>>]
    /\ net = 0
    /\ fw = FetchIdle
    /\ sched = NoSchedule
    /\ user_projects = <<>>
    /\ recommendations = <<>>
    /\ engine = NoEngine
    /\ helper = NoHelper

CallFetchWithRetry(maxRetries) ==
    /\ fw.pc = "idle"
    /\ fw' = LoopCheck([FetchIdle EXCEPT !.maxRetries = maxRetries])
    /\ UNCHANGED <<tools, survey_runs, clock, surveyors, throwing, apiKey, helper, user_projects, recommendations, engine, call, inv, net, sched>>

FetchSettled(o) ==
    /\ fw.pc = "request"
    /\ fw' = Received(fw, o)
    /\ UNCHANGED <<tools, survey_runs, clock, surveyors, throwing, apiKey, helper, user_projects, recommendations, engine, call, inv, net, sched>>

SleepDone ==
    /\ fw.pc = "sleep"
    /\ fw' = SleepOver(fw)
    /\ UNCHANGED <<tools, survey_runs, clock, surveyors, throwing, apiKey, helper, user_projects, recommendations, engine, call, inv, net, sched>>

NextFetch ==
    \/ \E maxRetries \in 0..MaxRetries : CallFetchWithRetry(maxRetries)
    \/ \E o \in Outcomes : FetchSettled(o)
    \/ SleepDone

SpecFetch == InitFetch /\ [][NextFetch]_vars

----------------------------------------------------------------------------
(* PersonalizationEngine (SpecEngine, SpecCatalog) *)

MaxCalls == 3       \* calls of the engine in one behaviour

\* a row of ai_tools as a survey leaves it, with the columns the engine reads
\* (language is metadata.language; relevance_score is what insertTool wrote
\* for an adapter's record, which has none)
ToolRow(id, source, last_updated, category, capabilities, popularity_score, language) ==
    [id |-> id,
     url |-> "https://example.org/" \o source \o "/" \o Str(id),
     description |-> "d1",
     source |-> source,
     first_discovered |-> last_updated,
     last_updated |-> last_updated,
     category |-> category,
     capabilities |-> capabilities,
     popularity_score |-> popularity_score,
     relevance_score |-> 0,
     language |-> language]

\* the catalogs the engine is run on
Catalogs ==
    { <<>>,
      <<ToolRow(1, "github", 1, Present("General AI"), <<"automation">>, 50, Absent),
        ToolRow(2, "github", 2, Absent, <<>>, 0, Present("Python")),
        ToolRow(3, "huggingface", 2, Present("NLP"),
                <<"sentiment analysis", "Machine Learning">>, 100, Present("Rust")),
        ToolRow(4, "youtube", 3, Present("Agent"), <<"general">>, 50, Present("python"))>>,
      <<ToolRow(1, "arxiv", 3, Present("NLP"),
                <<"sentiment analysis", "Machine Learning">>, 100, Present("Rust")),
        ToolRow(2, "github", 1, Present("LLM"),
                <<"text generation", "natural language processing", "LLM integration",
                  "embeddings">>, 80, Present("TypeScript")),
        ToolRow(3, "github", 2, Present("General AI"), <<"automation">>, 50, Absent)>> }

\* a catalog of ToolLimit + 1 tools: the oldest row matches every need of a
\* project without a README but has no popularity yet, the next TopCount + 1
\* rows are popular general tools, the rest are popular tools of no use
LargeCatalog ==
    [id \in 1..(ToolLimit + 1) |->
        IF id = 1
        THEN ToolRow(id, "github", 1, Present("General AI"), <<"automation", "general">>,
                     0, Absent)
        ELSE IF id <= TopCount + 2
        THEN ToolRow(id, "github", 2, Present("General AI"), <<"automation">>, 30 + id, Absent)
        ELSE ToolRow(id, "huggingface", 2, Present("Robotics"), <<>>, 20, Absent)]

\* the engine on its own: no survey runs, the catalog is what surveys left
InitEngineWith(catalogs) ==
    /\ tools \in catalogs
    /\ survey_runs = <<>>
    /\ clock = 10
    /\ surveyors = initializeSurveyors({})
    /\ throwing = {}
    /\ apiKey = FALSE
    /\ call = [c \in Callers |-> IdleCall]
    /\ inv = [c \in Callers |-> <<>>]
    /\ net = 0
    /\ fw = [pc |-> "off"]
    /\ sched = NoSchedule
    /\ user_projects = <<>>
    /\ recommendations = <<>>
    /\ engine = NoEngine
    /\ helper = NoHelper

InitEngine == InitEngineWith(Catalogs)

\* analyzeProject(projectPath, projectName) while `tree` lies at projectPath:
\* no await, so the call runs to its return in one step
analyzeProject(tree, projectPath, projectName) ==
    /\ engine.calls < MaxCalls
    /\ LET project == Analyses[[tree |-> tree, projectPath |-> projectPath,
                                projectName |-> projectName]]
           rows == insertProject(user_projects, project, clock)
           projectId == rows[Len(rows)].id
       IN  /\ user_projects' = rows
           /\ engine' = [calls |-> engine.calls + 1,
                         op |-> "analyzeProject",
                         tree |-> tree,
                         projectPath |-> projectPath,
                         threw |-> FALSE,
                         result |-> [id |-> projectId,
                                     name |-> project.name,
                                     path |-> project.path,
                                     description |-> project.description,
                                     tech_stack |-> project.tech_stack,
                                     ai_needs |-> project.ai_needs]]
    /\ UNCHANGED <<tools, survey_runs, clock, surveyors, throwing, apiKey, helper, call, inv, net, fw,
                   sched, recommendations>>

\* generateRecommendations(projectId): no await either
generateRecommendations(projectId) ==
    /\ engine.calls < MaxCalls
    /\ IF ~HasProject(user_projects, projectId)
       THEN /\ engine' = [calls |-> engine.calls + 1,
                          op |-> "generateRecommendations",
                          projectId |-> projectId,
                          threw |-> TRUE,
                          message |-> "Project " \o Str(projectId) \o " not found",
                          result |-> <<>>]
            /\ UNCHANGED recommendations
       ELSE LET g == Generated(FindProject(user_projects, projectId), tools,
                               recommendations, clock)
            IN  /\ recommendations' = g.rows
                /\ engine' = [calls |-> engine.calls + 1,
                              op |-> "generateRecommendations",
                              projectId |-> projectId,
                              threw |-> FALSE,
                              message |-> "",
                              result |-> g.result]
    /\ UNCHANGED <<tools, survey_runs, clock, surveyors, throwing, apiKey, helper, call, inv, net, fw,
                   sched, user_projects>>

\* db.getRecommendations(projectId, status) on the engine's database
CallGetRecommendations(projectId, status) ==
    /\ engine.calls < MaxCalls
    /\ engine' = [calls |-> engine.calls + 1,
                  op |-> "getRecommendations",
                  projectId |-> projectId,
                  status |-> status,
                  threw |-> FALSE,
                  message |-> "",
                  result |-> getRecommendations(recommendations, tools, projectId, status)]
    /\ UNCHANGED <<tools, survey_runs, clock, surveyors, throwing, apiKey, helper, call, inv, net, fw,
                   sched, user_projects, recommendations>>

NextEngine ==
    \/ \E a \in AnalysisInputs : analyzeProject(a.tree, a.projectPath, a.projectName)
    \/ \E projectId \in 1..(Len(user_projects) + 1) : generateRecommendations(projectId)
    \/ \E projectId \in {Absent} \cup {Present(p) : p \in 0..Len(user_projects)},
          status \in Statuses : CallGetRecommendations(projectId, status)

SpecEngine == InitEngine /\ [][NextEngine]_vars

\* the engine over the large catalog
InitCatalog == InitEngineWith({LargeCatalog})

SpecCatalog == InitCatalog /\ [][NextEngine]_vars

----------------------------------------------------------------------------
(* BaseSurveyor: calculatePopularityScore and categorizeByKeywords (SpecBase) *)

RECURSIVE Pow10(_)
Pow10(k) == IF k = 0 THEN 1 ELSE 10 * Pow10(k - 1)

\* Math.log10 where it is an integer: on the powers of ten
Log10(n) == CHOOSE k \in 0..9 : Pow10(k) = n

MetricKeys == {"stars", "downloads", "views", "likes"}

\* metric sets: every metric is absent (undefined), 0 or one less than a
\* power of ten
MetricSets ==
    {[k \in keys |-> m[k]] :
        m \in [stars : {0, 9, 99999, 999999999}, downloads : {0, 999999999},
               views : {99}, likes : {0, 999}],
        keys \in SUBSET MetricKeys}

\* if (metrics[key]) score += Math.log10(metrics[key] + 1) * weight
ScoreTerm(metrics, key, weight) ==
    IF key \in DOMAIN metrics /\ metrics[key] # 0
    THEN Log10(metrics[key] + 1) * weight
    ELSE 0

\* calculatePopularityScore that returns the sum as it is
calculatePopularityScoreUncapped(metrics) ==
    ScoreTerm(metrics, "stars", 10) + ScoreTerm(metrics, "downloads", 5)
        + ScoreTerm(metrics, "views", 2) + ScoreTerm(metrics, "likes", 3)

\* return Math.min(100, score)
calculatePopularityScore(metrics) ==
    Min(100, ScoreTerm(metrics, "stars", 10) + ScoreTerm(metrics, "downloads", 5)
                 + ScoreTerm(metrics, "views", 2) + ScoreTerm(metrics, "likes", 3))

\* const categories: the keyword table, in the order of Object.entries
CategoryKeywords ==
    <<[category |-> "LLM",
       keywords |-> <<"llm", "language model", "gpt", "claude", "llama", "mistral", "gemini">>],
      [category |-> "Computer Vision",
       keywords |-> <<"vision", "image", "video", "cv", "object detection", "segmentation">>],
      [category |-> "NLP",
       keywords |-> <<"nlp", "natural language", "text", "translation", "sentiment">>],
      [category |-> "Agent",
       keywords |-> <<"agent", "autonomous", "rag", "retrieval">>],
      [category |-> "Audio",
       keywords |-> <<"audio", "speech", "voice", "sound", "music">>],
      [category |-> "Robotics",
       keywords |-> <<"robot", "robotics", "control", "motion">>],
      [category |-> "ML Framework",
       keywords |-> <<"framework", "pytorch", "tensorflow", "jax", "training">>],
      [category |-> "Data Science",
       keywords |-> <<"data", "analysis", "visualization", "pandas", "numpy">>],
      [category |-> "MLOps",
       keywords |-> <<"mlops", "deployment", "monitoring", "serving", "inference">>]>>

\* keywords.some(keyword => lowerText.includes(keyword))
SomeIncluded(lowerText, keywords) ==
    \E n \in 1..Len(keywords) : Includes(lowerText, keywords[n])

\* categorizeByKeywords that tests the text as it is written
categorizeByKeywordsCaseSensitive(text) ==
    LET hits == {n \in 1..Len(CategoryKeywords) :
                    SomeIncluded(text, CategoryKeywords[n].keywords)}
    IN  IF hits = {} THEN "General AI"
        ELSE CategoryKeywords[CHOOSE n \in hits : \A j \in hits : n <= j].category

\* for (const [category, keywords] of Object.entries(categories)): the first
\* entry with a keyword in text.toLowerCase() is returned, else 'General AI'
categorizeByKeywords(text) ==
    LET lowerText == ToLowerCase(text)
        hits == {n \in 1..Len(CategoryKeywords) :
                    SomeIncluded(lowerText, CategoryKeywords[n].keywords)}
    IN  IF hits = {} THEN "General AI"
        ELSE CategoryKeywords[CHOOSE n \in hits : \A j \in hits : n <= j].category

\* titles and descriptions as the adapters pass them
Texts ==
    {"", "Quantum annealing solver", "A GPT wrapper", "Image segmentation with LLaMA",
     "Speech to text", "Voice cloning", "Robot motion planner", "PYTORCH TRAINING LOOPS",
     "Pandas for analysts", "Model serving at scale", "Storage engine",
     "Autonomous agents for NLP", "Sentiment of music reviews", "MLOps Monitoring"}

\* the call before this one, when it was a call of the same helper
Before(op) ==
    IF helper.op = op THEN Present([input |-> helper.input, result |-> helper.result]) ELSE Absent

CallCalculatePopularityScore(metrics) ==
    /\ helper' = [op |-> "calculatePopularityScore", input |-> metrics,
                result |-> calculatePopularityScore(metrics),
                before |-> Before("calculatePopularityScore")]
    /\ UNCHANGED <<tools, survey_runs, clock, surveyors, throwing, apiKey, user_projects,
                   recommendations, engine, call, inv, net, fw, sched>>

CallCategorizeByKeywords(text) ==
    /\ helper' = [op |-> "categorizeByKeywords", input |-> text,
                result |-> categorizeByKeywords(text),
                before |-> Before("categorizeByKeywords")]
    /\ UNCHANGED <<tools, survey_runs, clock, surveyors, throwing, apiKey, user_projects,
                   recommendations, engine, call, inv, net, fw, sched>>

InitBase == InitWith({{}})

NextBase ==
    \/ \E metrics \in MetricSets : CallCalculatePopularityScore(metrics)
    \/ \E text \in Texts : CallCategorizeByKeywords(text)

SpecBase == InitBase /\ [][NextBase]_vars

----------------------------------------------------------------------------
(* Properties of the catalog store and the survey pipeline (Spec) *)

Frames == {<<c, k>> : c \in Callers, k \in 1..Len(surveyors)}

Frame(f) == inv[f[1]][f[2]]

\* C1: no two rows of ai_tools share a url, whatever the adapters fetch
\* (a url twice in one page, the same url in overlapping surveys)
C1_UniqueUrl ==
    \A i, j \in 1..Len(tools) : tools[i].url = tools[j].url => i = j

\* two overlapping surveys of the same adapter have both met the same url:
\* one inserted it, the other found it, and both still await a dimension
C1_Witness ==
    \E c, d \in Callers, k \in 1..Len(surveyors) :
        /\ c # d
        /\ inv[c][k].pc = "fetch" /\ inv[d][k].pc = "fetch"
        /\ inv[c][k].discovered = 1 /\ inv[d][k].updated = 1
        /\ inv[c][k].tools[1].url = inv[d][k].tools[1].url
        /\ Len(tools) = 1

\* the tools a survey frame processed in this step
NewTools(f) == SubSeq(Frame(f).tools', Len(Frame(f).tools) + 1, Len(Frame(f).tools'))

\* C2: a survey that meets a stored url updates the row in place: the row
\* keeps its id and first_discovered, last_updated becomes the time of the
\* update and is not earlier than before, and the description stored is that
\* of the latest surveyed item with this url
C2_UpdateInPlace ==
    [][\A f \in Frames :
         \A n \in 1..Len(NewTools(f)) :
            LET tool == NewTools(f)[n]
                later == {j \in (n + 1)..Len(NewTools(f)) : NewTools(f)[j].url = tool.url}
            IN  /\ \E r \in 1..Len(tools') :
                     /\ tools'[r].url = tool.url
                     /\ later = {} => tools'[r].description = tool.description
                /\ \A r \in 1..Len(tools) :
                     tools[r].url = tool.url =>
                        /\ tools'[r].id = tools[r].id
                        /\ tools'[r].url = tools[r].url
                        /\ tools'[r].first_discovered = tools[r].first_discovered
                        /\ tools'[r].last_updated = clock
                        /\ tools'[r].last_updated >= tools[r].last_updated
                        /\ Len(tools') = Len(tools)
                             + Cardinality({NewTools(f)[j].url : j \in 1..Len(NewTools(f))}
                                           \ {tools[j].url : j \in 1..Len(tools)})]_vars

\* a stored tool was found again later by another survey, with another
\* description, which is the one stored now
C2_Witness ==
    \E r \in 1..Len(tools), f, g \in Frames :
        /\ f # g
        /\ Frame(f).discovered = 1 /\ Frame(g).updated = 1
        /\ Frame(f).tools[1].url = tools[r].url
        /\ Last(Frame(g).tools).url = tools[r].url
        /\ Frame(f).tools[1].description # Last(Frame(g).tools).description
        /\ tools[r].description = Last(Frame(g).tools).description
        /\ tools[r].first_discovered < tools[r].last_updated

\* the frame is a survey() of a shipped adapter that went through its dimensions
Surveyed(f) ==
    /\ Frame(f).outcome = "returned"
    /\ ~(surveyors[f[2]] = "youtube" /\ ~apiKey)

\* C3: a failing query dimension never keeps the remaining dimensions from
\* being surveyed: a survey() that returned has attempted every dimension
C3_EveryDimensionSurveyed ==
    \A f \in Frames :
        Surveyed(f) => Frame(f).attempted = Len(Dimensions(surveyors[f[2]]))

\* C4: a survey() that throws is logged by run() as a failed SurveyRun with the
\* error message and re-raised; runSurvey() records the adapter as failed,
\* goes on with the remaining adapters and does not throw itself
C4_FailureIsolated ==
    \A c \in Callers :
        /\ \A k \in 1..Len(surveyors) :
              (inv[c][k].pc = "settled" /\ inv[c][k].outcome = "threw") =>
                 /\ inv[c][k].row \in 1..Len(survey_runs)
                 /\ survey_runs[inv[c][k].row].source = surveyors[k]
                 /\ survey_runs[inv[c][k].row].status = "failed"
                 /\ survey_runs[inv[c][k].row].error_log = inv[c][k].thrown
                 /\ IF IsCycle(call[c])
                    THEN \E n \in 1..Len(call[c].results) :
                            call[c].results[n] = <<surveyors[k], "failed">>
                    ELSE call[c].pc = "threw"
        /\ IsCycle(call[c]) =>
              /\ call[c].pc \in {"stagger", "run", "done"}
              /\ call[c].pc = "run" => inv[c][call[c].i].pc = "fetch"
              /\ call[c].pc = "done" =>
                    \A k \in 1..Len(surveyors) :
                       /\ inv[c][k].pc = "settled"
                       /\ inv[c][k].outcome = "returned" =>
                             /\ survey_runs[inv[c][k].row].source = surveyors[k]
                             /\ survey_runs[inv[c][k].row].status \in {"success", "partial"}
                             /\ \E n \in 1..Len(call[c].results) :
                                   call[c].results[n] = <<surveyors[k], "success">>

\* a cycle over two adapters is done: the first threw, the second returned
C4_Witness ==
    \E c \in Callers :
        /\ IsCycle(call[c]) /\ call[c].pc = "done"
        /\ Len(surveyors) = 2
        /\ inv[c][1].outcome = "threw" /\ inv[c][2].outcome = "returned"
        /\ survey_runs[inv[c][1].row].status = "failed"
        /\ survey_runs[inv[c][2].row].status \in {"success", "partial"}

\* C5: the SurveyRun of a settled run() is failed exactly when survey() threw,
\* partial exactly when it returned errors, success exactly when it returned
\* none; its counts are the returned stats (0 and 0 when failed) and its
\* error_log the errors joined by newlines (the thrown message when failed,
\* absent without errors)
C5_StatusOfRun ==
    \A f \in Frames :
        Frame(f).pc = "settled" =>
           LET fr == Frame(f)
               run == survey_runs[fr.row]
           IN  /\ run.source = surveyors[f[2]]
               /\ (run.status = "failed") <=> (fr.outcome = "threw")
               /\ (run.status = "partial") <=> (fr.outcome = "returned" /\ Len(fr.errors) > 0)
               /\ (run.status = "success") <=> (fr.outcome = "returned" /\ Len(fr.errors) = 0)
               /\ run.items_discovered = IF fr.outcome = "threw" THEN 0 ELSE fr.discovered
               /\ run.items_updated = IF fr.outcome = "threw" THEN 0 ELSE fr.updated
               /\ fr.outcome = "threw" => run.error_log = fr.thrown
               /\ (fr.outcome = "returned" /\ Len(fr.errors) = 0) => run.error_log = Absent
               /\ (fr.outcome = "returned" /\ Len(fr.errors) = 1) =>
                     run.error_log = Present(fr.errors[1])
               /\ (fr.outcome = "returned" /\ Len(fr.errors) = 2) =>
                     run.error_log = Present(fr.errors[1] \o "\n" \o fr.errors[2])

\* the log holds a failed, a partial and a success run, the success one with
\* a tool counted
C5_Witness ==
    \E f, g, h \in Frames :
        /\ Frame(f).pc = "settled" /\ survey_runs[Frame(f).row].status = "failed"
        /\ Frame(g).pc = "settled" /\ survey_runs[Frame(g).row].status = "partial"
        /\ Frame(h).pc = "settled" /\ survey_runs[Frame(h).row].status = "success"
        /\ survey_runs[Frame(h).row].items_discovered + survey_runs[Frame(h).row].items_updated > 0

Settled == {f \in Frames : Frame(f).pc = "settled"}

\* C6: survey_runs is append-only and holds exactly one row per completed
\* run(): the rows of the settled invocations are pairwise distinct and are
\* all the rows, and no step changes or removes a row
C6_OneRowPerRun ==
    /\ [](/\ Len(survey_runs) = Cardinality(Settled)
          /\ \A f \in Settled : Frame(f).row \in 1..Len(survey_runs)
          /\ \A f, g \in Settled : Frame(f).row = Frame(g).row => f = g
          /\ \A f \in Frames \ Settled : Frame(f).row = 0)
    /\ [][/\ Len(survey_runs') >= Len(survey_runs)
          /\ SubSeq(survey_runs', 1, Len(survey_runs)) = survey_runs]_vars

\* a cycle and a single on-demand run have completed, one run() having thrown
C6_Witness ==
    /\ Len(survey_runs) = 3
    /\ \E c, d \in Callers :
          /\ call[c].op = "runSurvey" /\ call[c].pc = "done"
          /\ call[d].op = "runOnDemand" /\ call[d].name # Absent
          /\ call[d].pc \in {"done", "threw"}
    /\ \E f \in Settled : Frame(f).outcome = "threw"

\* the request did not settle with an ok response
Failed(o) == ~IsOk(o)

\* C7: fetchWithRetry never retries indefinitely: whatever the requests settle
\* with, it issues at most maxRetries requests, every step brings it nearer
\* to its end, and after the last permitted request it returns or raises (a
\* pending sleep is followed by the raise); with maxRetries = 3 and only
\* non-429 failures it makes exactly 3 requests and raises with the third
C7_BoundedAttempts ==
    /\ [](fw.pc # "idle" =>
            /\ fw.requests <= fw.maxRetries
            /\ Len(fw.slept) <= Len(fw.history) /\ Len(fw.history) <= fw.requests
            /\ fw.pc = "request" <=> Len(fw.history) < fw.requests
            /\ fw.pc = "returned" => IsOk(Last(fw.history))
            /\ fw.pc = "raised" => fw.requests = fw.maxRetries
            /\ (Len(fw.history) = fw.maxRetries /\ fw.pc # "sleep") =>
                  fw.pc \in {"returned", "raised"}
            /\ (/\ fw.maxRetries = 3
                /\ \A j \in 1..Len(fw.history) :
                      Failed(fw.history[j]) /\ ~IsRateLimited(fw.history[j])) =>
                  /\ fw.pc = "raised" <=> Len(fw.history) = 3
                  /\ fw.pc = "raised" => fw.requests = 3)
    /\ [][/\ fw.pc # "idle" =>
               Len(fw.history') + Len(fw.slept') = Len(fw.history) + Len(fw.slept) + 1
          /\ (fw.pc = "sleep" /\ Len(fw.history) = fw.maxRetries) => fw'.pc = "raised"]_vars

\* maxRetries = 3, an HTTP error and network exceptions only: three requests
\* were made, two backoff sleeps were slept and the call has raised
C7_Witness ==
    /\ fw.pc = "raised" /\ fw.maxRetries = 3 /\ fw.requests = 3
    /\ Len(fw.history) = 3 /\ Len(fw.slept) = 2
    /\ \A j \in 1..3 : Failed(fw.history[j]) /\ ~IsRateLimited(fw.history[j])
    /\ \E j, k \in 1..3 : fw.history[j].kind = "exception" /\ fw.history[k].status = 500

\* C8: when fetchWithRetry raises after its requests all failed, the error
\* raised is the error of the last request, be it a 429 response, another
\* HTTP error status or a network exception
C8_RaisesLastError ==
    (fw.pc = "raised" /\ Len(fw.history) > 0) =>
        fw.result = Present(ErrorMessage(Last(fw.history)))

\* a Retry-After value in delay-seconds form
IsDelaySeconds(h) ==
    h # Absent /\ h[1] # <<>> /\ \A n \in 1..Len(h[1]) : IsDigit(h[1][n])

\* C9: before the request that follows a failed one is issued, fetchWithRetry
\* has slept at least the seconds of the Retry-After header of a 429 response,
\* at least 2^attempt seconds after a 429 response without the header, and
\* at least 2^attempt seconds after any other failure (attempts from 0)
C9_WaitsBeforeRetry ==
    \A j \in 1..Len(fw.history) :
        j < fw.requests =>
           /\ Len(fw.slept) >= j
           /\ (IsRateLimited(fw.history[j]) /\ IsDelaySeconds(fw.history[j].retryAfter)) =>
                 fw.slept[j] \div 1000 >= Decimal(fw.history[j].retryAfter[1], 0)
           /\ (IsRateLimited(fw.history[j]) /\ fw.history[j].retryAfter = Absent) =>
                 fw.slept[j] >= Pow2(j - 1) * 1000
           /\ ~IsRateLimited(fw.history[j]) => fw.slept[j] >= Pow2(j - 1) * 1000

----------------------------------------------------------------------------
(* Properties of the daily schedule (SpecSched) *)

\* C11: at every moment at most one timer is armed per configured time, and
\* an armed timer is due at an occurrence of its configured time, for every
\* interleaving of start(), stop(), timer firings and survey completions
C11_OneTimerPerTime ==
    /\ \A t \in 1..Len(ScheduleTimes) :
          Cardinality({a \in sched.armed : a.time = t}) <= 1
    /\ \A a \in sched.armed :
          a.due % DaySeconds = ScheduleTimes[a.time][1] * 3600 + ScheduleTimes[a.time][2] * 60

\* C12: in the state after a stop() call returned no timer is armed, as long
\* as none has been armed since
C12_StopCancelsAll ==
    sched.afterStop => sched.armed = {}

\* C13: stop() leaves every call, every run() frame and both tables as they
\* are, and a cycle that was in progress when stop() was called goes on as any
\* other: it awaits the fetch of its current surveyor or the stagger sleep, and
\* when it is done every registered surveyor has run and logged its SurveyRun
C13_StopLeavesCycle ==
    /\ [][(sched'.duringCycle # sched.duringCycle \/ (sched'.afterStop /\ ~sched.afterStop)) =>
             UNCHANGED <<call, inv, survey_runs, tools>>]_vars
    /\ [](\A p \in sched.duringCycle :
            LET c == p[1]
            IN  /\ call[c].pc \in {"run", "stagger", "done"}
                /\ call[c].i >= p[2]
                /\ call[c].pc = "run" => inv[c][call[c].i].pc = "fetch"
                /\ call[c].pc = "stagger" => inv[c][call[c].i].pc = "none"
                /\ call[c].pc = "done" =>
                      \A k \in 1..Len(surveyors) :
                         /\ inv[c][k].pc = "settled"
                         /\ inv[c][k].row \in 1..Len(survey_runs)
                         /\ survey_runs[inv[c][k].row].source = surveyors[k])

\* stop() was called while the cycle of start() was at its first surveyor; the
\* cycle is done now, both surveyors having run and logged
C13_Witness ==
    \E c \in Callers :
        /\ <<c, 1>> \in sched.duringCycle
        /\ call[c].op = "start" /\ call[c].pc = "done"
        /\ Len(surveyors) = 2
        /\ inv[c][1].pc = "settled" /\ inv[c][2].pc = "settled"
        /\ survey_runs[inv[c][1].row].source = surveyors[1]
        /\ survey_runs[inv[c][2].row].source = surveyors[2]

\* C14: runOnDemand with a name that is not registered raises without starting
\* any run(), adding a survey_runs row or touching ai_tools; with a registered
\* name it starts run() of that surveyor and of no other; without a name it
\* performs one full cycle, every surveyor run once and in order
C14_OnDemandByName ==
    /\ [](\A c \in Callers :
            call[c].op = "runOnDemand" =>
               IF call[c].name = Absent
               THEN /\ call[c].pc # "threw"
                    /\ \A k \in 1..Len(surveyors) :
                          inv[c][k].pc # "none" <=>
                             (k < call[c].i \/ (k = call[c].i /\ call[c].pc = "run"))
                    /\ call[c].pc = "done" =>
                          /\ Len(call[c].results) = Len(surveyors)
                          /\ \A k \in 1..Len(surveyors) :
                                /\ call[c].results[k][1] = surveyors[k]
                                /\ inv[c][k].pc = "settled"
               ELSE IF call[c].name[1] \notin Registered(surveyors)
               THEN /\ call[c].pc = "threw"
                    /\ \A k \in 1..Len(surveyors) : inv[c][k] = NoFrame
               ELSE /\ \A k \in 1..Len(surveyors) :
                          inv[c][k].pc # "none" <=> surveyors[k] = call[c].name[1]
                    /\ call[c].results = <<>>)
    /\ [][\A c \in Callers :
            (/\ call[c].op = "idle" /\ call'[c].op = "runOnDemand"
             /\ call'[c].name # Absent
             /\ call'[c].name[1] \notin Registered(surveyors)) =>
               /\ survey_runs' = survey_runs
               /\ tools' = tools
               /\ inv' = inv]_vars

\* two surveyors are registered: one call named one that is not and raised,
\* another named the second surveyor, whose run() alone ran and was logged
C14_Witness ==
    \E c, d \in Callers :
        /\ Len(surveyors) = 2 /\ Len(survey_runs) = 1
        /\ call[c].op = "runOnDemand" /\ call[c].name # Absent /\ call[c].pc = "threw"
        /\ call[c].name[1] \notin Registered(surveyors)
        /\ call[d].op = "runOnDemand" /\ call[d].name = Present(surveyors[2])
        /\ call[d].pc = "done"
        /\ inv[d][2].pc = "settled" /\ inv[d][1].pc = "none"
        /\ survey_runs[1].source = surveyors[2]

\* C15: there is no run-lock: a cycle requested while a cycle of another call
\* is in progress starts at once, its first run() begun in the same step
C15_NoRunLock ==
    [][\A c \in Callers :
         (/\ call[c].op = "idle" /\ call'[c].op # "idle"
          /\ IsCycle(call'[c])
          /\ OtherCycleInProgress(c)) =>
            /\ call'[c].pc # "threw"
            /\ inv'[c][1].pc # "none"]_vars

\* a runSurvey() cycle and an on-demand cycle are in progress together, each
\* awaiting run() of the same surveyor, both of which await a fetch
C15_Witness ==
    \E c, d \in Callers, k \in 1..Len(surveyors) :
        /\ call[c].op = "runSurvey" /\ call[c].pc = "run" /\ call[c].i = k
        /\ call[d].op = "runOnDemand" /\ call[d].name = Absent
        /\ call[d].pc = "run" /\ call[d].i = k
        /\ inv[c][k].pc = "fetch" /\ inv[d][k].pc = "fetch"

----------------------------------------------------------------------------
(* Properties of the personalization engine (SpecEngine, SpecCatalog) *)

\* the row of ai_tools with this id
ToolById(id) == tools[CHOOSE k \in 1..Len(tools) : tools[k].id = id]

\* the step is a call of generateRecommendations that returned
GenerateReturns ==
    /\ engine'.calls = engine.calls + 1
    /\ engine'.op = "generateRecommendations"
    /\ ~engine'.threw

\* the step is a call of analyzeProject
AnalyzeReturns ==
    /\ engine'.calls = engine.calls + 1
    /\ engine'.op = "analyzeProject"

\* the rows a step appended to recommendations
NewRows == SubSeq(recommendations', Len(recommendations) + 1, Len(recommendations'))

\* the tools of the catalog that score above the threshold for a project
QualifyingTools(project) ==
    {k \in 1..Len(tools) : calculateRelevance(project, tools[k]) > Threshold}

\* the pending rows of a project
PendingRows(rows, projectId) ==
    {k \in 1..Len(rows) : rows[k].user_project_id = projectId /\ rows[k].status = "pending"}

\* C16: every persisted Recommendation, and every returned one, carries the
\* relevance score of its tool for its project, and that score is above 0.3
\* and within [0, 1]: no tool scoring 0.3 or less is persisted or returned.
C16_AboveThresholdWithinUnit ==
    /\ \A k \in 1..Len(recommendations) :
          LET r == recommendations[k]
          IN  /\ r.relevance_score =
                     calculateRelevance(FindProject(user_projects, r.user_project_id),
                                        ToolById(r.tool_id))
              /\ r.relevance_score > Threshold
              /\ r.relevance_score >= 0
              /\ r.relevance_score <= One
    /\ engine.op = "generateRecommendations" =>
          \A i \in 1..Len(engine.result) :
             /\ engine.result[i].relevance_score =
                    calculateRelevance(FindProject(user_projects, engine.projectId),
                                       ToolById(engine.result[i].tool_id))
             /\ engine.result[i].relevance_score > Threshold
             /\ engine.result[i].relevance_score <= One

\* generateRecommendations returned for a project for which one tool of the
\* catalog scores exactly 0.3 and another tool scores above it
C16_Witness ==
    /\ engine.op = "generateRecommendations"
    /\ ~engine.threw
    /\ Len(engine.result) > 0
    /\ \E k \in 1..Len(tools) :
          calculateRelevance(FindProject(user_projects, engine.projectId), tools[k]) = Threshold

\* C17: a call of generateRecommendations persists exactly one pending row
\* for every tool of the catalog that scores above 0.3 for the project and
\* nothing else; the returned list is in descending order of relevance_score,
\* holds the min(20, number of qualifying tools) highest-scoring of the new
\* rows, and every returned item is one of the new rows, id included.
C17_EveryQualifyingToolPersisted ==
    [][GenerateReturns =>
          LET project == FindProject(user_projects, engine'.projectId)
              result == engine'.result
          IN  /\ \A k \in QualifyingTools(project) :
                    Cardinality({i \in 1..Len(NewRows) :
                                    /\ NewRows[i].tool_id = tools[k].id
                                    /\ NewRows[i].user_project_id = project.id
                                    /\ NewRows[i].status = "pending"}) = 1
              /\ Len(NewRows) = Cardinality(QualifyingTools(project))
              /\ \A i, j \in 1..Len(result) :
                    i < j => result[i].relevance_score >= result[j].relevance_score
              /\ Len(result) = Min(TopCount, Cardinality(QualifyingTools(project)))
              /\ \A i \in 1..Len(result) : \E n \in 1..Len(NewRows) : NewRows[n] = result[i]
              /\ \A n \in 1..Len(NewRows) :
                    (\A i \in 1..Len(result) : result[i].id # NewRows[n].id)
                       => \A i \in 1..Len(result) :
                             result[i].relevance_score >= NewRows[n].relevance_score]_vars

\* C18: no step changes or removes a row of recommendations, and a call of
\* generateRecommendations adds one pending row per qualifying tool whatever
\* rows the project already has, so a second call for the same project over
\* the same catalog doubles the pending rows of the project.
C18_AppendOnly ==
    [][/\ Len(recommendations') >= Len(recommendations)
       /\ \A k \in 1..Len(recommendations) : recommendations'[k] = recommendations[k]
       /\ GenerateReturns =>
             LET project == FindProject(user_projects, engine'.projectId)
                 before == Cardinality(PendingRows(recommendations, project.id))
                 after == Cardinality(PendingRows(recommendations', project.id))
             IN  /\ after = before + Cardinality(QualifyingTools(project))
                 /\ (engine.op = "generateRecommendations" /\ ~engine.threw
                       /\ engine.projectId = project.id
                       /\ before = Cardinality(QualifyingTools(project)))
                      => after = 2 * before]_vars

\* generateRecommendations returned twice in a row for the same project, and
\* the project has twice as many pending rows as there are qualifying tools
C18_Witness ==
    /\ engine.op = "generateRecommendations"
    /\ ~engine.threw
    /\ engine.calls = 3
    /\ Len(user_projects) = 1
    /\ QualifyingTools(user_projects[1]) # {}
    /\ Cardinality(PendingRows(recommendations, 1)) =
           2 * Cardinality(QualifyingTools(user_projects[1]))

\* C19: a call of analyzeProject adds exactly one row to user_projects and
\* leaves the earlier rows as they were; the project returned has the fields
\* and the id of the new row, an id no earlier row has; so the ids are
\* pairwise distinct and a path analysed n times has n rows.
C19_OneNewRowPerAnalysis ==
    /\ [](\A j, k \in 1..Len(user_projects) :
             j # k => user_projects[j].id # user_projects[k].id)
    /\ [][AnalyzeReturns =>
             /\ Len(user_projects') = Len(user_projects) + 1
             /\ \A k \in 1..Len(user_projects) : user_projects'[k] = user_projects[k]
             /\ LET row == user_projects'[Len(user_projects')]
                IN  /\ engine'.result.id = row.id
                    /\ engine'.result.path = row.path
                    /\ engine'.result.name = row.name
                    /\ engine'.result.tech_stack = row.tech_stack
                    /\ engine'.result.ai_needs = row.ai_needs
                    /\ row.path = engine'.projectPath
                    /\ \A k \in 1..Len(user_projects) : user_projects[k].id # row.id
                    /\ Cardinality({k \in 1..Len(user_projects') :
                                       user_projects'[k].path = row.path}) =
                       Cardinality({k \in 1..Len(user_projects) :
                                       user_projects[k].path = row.path}) + 1]_vars

\* the same path has been analysed three times, over different trees, and
\* has three rows
C19_Witness ==
    /\ engine.op = "analyzeProject"
    /\ Len(user_projects) = 3
    /\ \A k \in 1..3 : user_projects[k].path = "/home/u/app"
    /\ user_projects[1].tech_stack # user_projects[2].tech_stack

\* the paths of the files that can be read under a directory: the entries of
\* listable directories that are not skipped by name, `levels` levels deep
RECURSIVE ReadablePaths(_, _, _)
ReadablePaths(node, dir, levels) ==
    IF levels = 0 \/ ~node.listable THEN {}
    ELSE UNION {IF StartsWith(node.entries[i].name, ".")
                   \/ node.entries[i].name \in {"node_modules", "vendor"} THEN {}
                ELSE IF node.entries[i].stat = "file"
                THEN {join(dir, node.entries[i].name)}
                ELSE IF node.entries[i].stat = "dir"
                THEN ReadablePaths(node.entries[i], join(dir, node.entries[i].name),
                                   levels - 1)
                ELSE {} : i \in 1..Len(node.entries)}

\* what the name of one file says about the tech stack
StackEvidence(path) ==
    (IF EndsWith(path, "package.json") THEN {"JavaScript/TypeScript"} ELSE {})
    \cup (IF EndsWith(path, "requirements.txt") \/ EndsWith(path, "pyproject.toml")
             \/ ToLowerCase(extname(path)) = ".py" THEN {"Python"} ELSE {})
    \cup (IF EndsWith(path, "go.mod") \/ ToLowerCase(extname(path)) = ".go"
          THEN {"Go"} ELSE {})
    \cup (IF EndsWith(path, "Cargo.toml") \/ ToLowerCase(extname(path)) = ".rs"
          THEN {"Rust"} ELSE {})
    \cup (IF EndsWith(path, "pom.xml") \/ EndsWith(path, "build.gradle")
             \/ ToLowerCase(extname(path)) = ".java" THEN {"Java"} ELSE {})
    \cup (IF ToLowerCase(extname(path)) \in {".ts", ".tsx"} THEN {"TypeScript"} ELSE {})
    \cup (IF ToLowerCase(extname(path)) \in {".cpp", ".cc"} THEN {"C++"} ELSE {})

\* C20: a call of analyzeProject returns whatever cannot be read under the
\* path: the project is persisted, its tech stack holds what every readable
\* file within three levels says, also a file that follows an unreadable
\* entry, and nothing else; its ai_needs is never empty; and for a path that
\* cannot be listed at all the tech stack is empty and the ai_needs are the
\* two default needs.
C20_UnreadableEntriesSkipped ==
    engine.op = "analyzeProject" =>
       LET row == user_projects[Len(user_projects)]
           readable == ReadablePaths(engine.tree, engine.projectPath, 3)
       IN  /\ ~engine.threw
           /\ row.id = engine.result.id
           /\ row.path = engine.projectPath
           /\ \A f \in readable :
                 \A t \in StackEvidence(f) : Has(row.tech_stack, t)
           /\ \A i \in 1..Len(row.tech_stack) :
                 \/ row.tech_stack[i] \in {"React", "Vue", "Angular", "Express", "Next.js"}
                 \/ \E f \in readable : row.tech_stack[i] \in StackEvidence(f)
           /\ Len(row.ai_needs) > 0
           /\ ~engine.tree.listable =>
                 /\ row.tech_stack = <<>>
                 /\ row.ai_needs = <<"general AI capabilities", "automation">>

\* a tree was analysed in which an entry that cannot be read comes before a
\* readable file, and the file is in the tech stack of the persisted project
C20_Witness ==
    /\ engine.op = "analyzeProject"
    /\ engine.tree.listable
    /\ engine.tree.entries # <<>>
    /\ engine.tree.entries[1].stat = "error"
    /\ Has(user_projects[Len(user_projects)].tech_stack, "Python")

----------------------------------------------------------------------------
(* Further properties of the adapters and the survey pipeline (Spec) *)

\* the frame is a run() of the video adapter with YOUTUBE_API_KEY unset
WithoutKey(f) ==
    /\ surveyors[f[2]] = "youtube"
    /\ ~apiKey
    /\ "youtube" \notin throwing

RegisteredInOrder ==
    \A on \in SUBSET SurveyorNames :
        LET registered == initializeSurveyors(on)
        IN  /\ Registered(registered) = on
            /\ \A j, k \in 1..Len(registered) :
                  j < k => IndexOf(SurveyorOrder, registered[j])
                              < IndexOf(SurveyorOrder, registered[k])

WithUrl(f, url) ==
    {n \in 1..(Len(Frame(f)'.tools) - Len(Frame(f).tools)) :
        Frame(f)'.tools[Len(Frame(f).tools) + n].url = url}

\* the columns of a row that an update leaves alone
KeptColumns(row) ==
    [id |-> row.id, source |-> row.source, subcategory |-> row.subcategory,
     api_available |-> row.api_available, open_source |-> row.open_source,
     pricing_model |-> row.pricing_model, relevance_score |-> row.relevance_score,
     metadata |-> row.metadata, first_discovered |-> row.first_discovered]

\* C27: an update on re-discovery changes only name, description, url,
\* category, capabilities, popularity_score and last_updated, which take the
\* values of the newly surveyed record; source, subcategory, api_available,
\* open_source, pricing_model, relevance_score and metadata (and id and
\* first_discovered) keep the values written at first discovery
C27_UpdateKeepsFirstDiscovery ==
    [][\A f \in Frames :
         Len(Frame(f)'.tools) > Len(Frame(f).tools) =>
            \A r \in 1..Len(tools') :
               LET hits == WithUrl(f, tools'[r].url)
               IN  hits # {} =>
                      LET first == Frame(f)'.tools[Len(Frame(f).tools)
                                      + (CHOOSE n \in hits : \A m \in hits : n <= m)]
                          latest == Frame(f)'.tools[Len(Frame(f).tools) + Greatest(hits)]
                      IN  /\ r <= Len(tools) => KeptColumns(tools'[r]) = KeptColumns(tools[r])
                          /\ r > Len(tools) =>
                                /\ tools'[r].id = r
                                /\ tools'[r].source = first.source
                                /\ tools'[r].subcategory = first.subcategory
                                /\ tools'[r].api_available = (IF first.api_available THEN 1 ELSE 0)
                                /\ tools'[r].open_source = (IF first.open_source THEN 1 ELSE 0)
                                /\ tools'[r].pricing_model = first.pricing_model
                                /\ tools'[r].relevance_score = 0
                                /\ tools'[r].metadata = Stringify("object", first.metadata)
                                /\ tools'[r].first_discovered = clock
                          /\ tools'[r].name = latest.name
                          /\ tools'[r].description = latest.description
                          /\ tools'[r].url = latest.url
                          /\ tools'[r].category = latest.category
                          /\ tools'[r].capabilities = Stringify("array", latest.capabilities)
                          /\ tools'[r].popularity_score = latest.popularity_score
                          /\ tools'[r].last_updated = clock]_vars

\* a tool first discovered by one adapter's survey was found again by a later
\* survey with a record that differs in every field but the url: the row has
\* the later name, category, capabilities and popularity and the earlier
\* subcategory, flags, pricing model and metadata
C27_Witness ==
    \E r \in 1..Len(tools) :
        /\ tools[r].name = "n2" /\ tools[r].description = "d2"
        /\ tools[r].category = "Agent" /\ tools[r].popularity_score = 20
        /\ tools[r].capabilities = "[\"chat\",\"rag\"]"
        /\ tools[r].subcategory = "Python"
        /\ tools[r].api_available = 1 /\ tools[r].open_source = 0
        /\ tools[r].pricing_model = "free" /\ tools[r].relevance_score = 0
        /\ tools[r].metadata = "{\"language\":\"Python\"}"
        /\ tools[r].first_discovered < tools[r].last_updated

\* the urls of the items of a sequence of tools
Urls(items) == {items[n].url : n \in 1..Len(items)}

\* the items among those a frame processed in this step whose url was stored
\* when their turn came: before the step, or by an earlier item of the step
Rediscovered(f) ==
    {n \in 1..Len(NewTools(f)) :
        NewTools(f)[n].url \in Urls(tools) \cup Urls(SubSeq(NewTools(f), 1, n - 1))}

RECURSIVE TotalDiscovered(_)
TotalDiscovered(F) ==
    IF F = {} THEN 0
    ELSE LET f == CHOOSE g \in F : TRUE
         IN  Frame(f).discovered + TotalDiscovered(F \ {f})

\* C28: in every survey() result discovered + updated is the number of tools
\* returned and stats.errors the number of errors; discovered counts the rows
\* the invocation inserted and updated the updates in place it made, so the
\* table holds as many rows as the surveys discovered together
C28_CountsMatchWrites ==
    /\ [](/\ \A f \in Frames :
                /\ Frame(f).discovered + Frame(f).updated = Len(Frame(f).tools)
                /\ Frame(f).outcome = "returned" => Frame(f).statsErrors = Len(Frame(f).errors)
          /\ Len(tools) = TotalDiscovered(Frames))
    /\ [][\A f \in Frames :
            /\ Frame(f)'.updated - Frame(f).updated = Cardinality(Rediscovered(f))
            /\ Frame(f)'.discovered - Frame(f).discovered
                  = Len(NewTools(f)) - Cardinality(Rediscovered(f))
            /\ Frame(f)' # Frame(f) =>
                  Len(tools') - Len(tools) = Frame(f)'.discovered - Frame(f).discovered]_vars

\* a survey() returned with one tool discovered and one updated, the page of
\* a dimension having held a url twice: the table has the one row
C28_Witness ==
    \E f \in Frames :
        /\ Frame(f).outcome = "returned"
        /\ Frame(f).discovered = 1 /\ Frame(f).updated = 1
        /\ Len(Frame(f).tools) = 2 /\ Len(tools) = 1
        /\ Frame(f).tools[1].url = Frame(f).tools[2].url
        /\ Frame(f).statsErrors = 0 /\ Frame(f).errors = <<>>

\* the frame is a run() of a shipped adapter: its survey() is the code of
\* the huggingface, github, youtube or arxiv surveyor
Shipped(f) == surveyors[f[2]] \notin throwing

\* run() has settled and every dimension its survey() attempted ended in the
\* catch block
EveryDimensionFailed(f) ==
    /\ Frame(f).pc = "settled"
    /\ Frame(f).attempted >= 1
    /\ Len(Frame(f).errors) = Frame(f).attempted

----------------------------------------------------------------------------
(* Further properties of the daily schedule (SpecSched) *)

\* C25: whenever isRunning is false no timer is armed, under every
\* interleaving of start() and stop(), a stop() during the initial cycle of
\* start() included
C25_StoppedMeansNoTimer ==
    ~sched.isRunning => sched.armed = {}

\* C26: from the return of stop() until start() is called no timer is armed
\* and no scheduled cycle starts, also when stop() was called while the cycle
\* of a timer callback was in progress
C26_StoppedStaysStopped ==
    [][(~sched.isRunning /\ ~sched'.isRunning) =>
          /\ sched'.armed \subseteq sched.armed
          /\ \A c \in Callers : call'[c].op = "timer" => call[c].op = "timer"]_vars

----------------------------------------------------------------------------
(* Properties of the BaseSurveyor helpers (SpecBase) *)

\* the metric as the score reads it: an absent metric counts as 0
MetricValue(metrics, key) == IF key \in DOMAIN metrics THEN metrics[key] ELSE 0

\* every component of a is at least the corresponding component of b
AtLeast(a, b) == \A key \in MetricKeys : MetricValue(a, key) >= MetricValue(b, key)

\* C22: calculatePopularityScore is monotone and bounded: its result lies in
\* [0, 100], and of two metric sets of non-negative values of which one is
\* componentwise at least the other, that one scores at least as much
C22_MonotoneBounded ==
    helper.op = "calculatePopularityScore" =>
        /\ helper.result >= 0 /\ helper.result <= 100
        /\ helper.before # Absent =>
              /\ AtLeast(helper.input, helper.before[1].input) =>
                    helper.result >= helper.before[1].result
              /\ AtLeast(helper.before[1].input, helper.input) =>
                    helper.before[1].result >= helper.result

\* a metric set that reaches the cap was scored after one that it dominates
\* strictly and that scores less
C22_Witness ==
    /\ helper.op = "calculatePopularityScore"
    /\ helper.before # Absent
    /\ AtLeast(helper.input, helper.before[1].input)
    /\ helper.input # helper.before[1].input
    /\ helper.result = 100
    /\ helper.before[1].result \in 1..99
    /\ MetricValue(helper.input, "stars") = 999999999
    /\ MetricValue(helper.input, "downloads") = 999999999

\* the order of the categories
CategoryOrder ==
    <<"LLM", "Computer Vision", "NLP", "Agent", "Audio", "Robotics", "ML Framework",
      "Data Science", "MLOps">>

\* a keyword of the category at position n occurs in the lower-cased text
Occurs(n, text) ==
    /\ CategoryKeywords[n].category = CategoryOrder[n]
    /\ SomeIncluded(ToLowerCase(text), CategoryKeywords[n].keywords)

\* C23: categorizeByKeywords returns the first category, in the order LLM,
\* Computer Vision, NLP, Agent, Audio, Robotics, ML Framework, Data Science,
\* MLOps, one of whose keywords occurs in the lower-cased text, and General AI
\* when no keyword of any category occurs; the same text gets the same category
C23_FirstCategoryInOrder ==
    helper.op = "categorizeByKeywords" =>
        /\ Len(CategoryKeywords) = Len(CategoryOrder)
        /\ \A n \in 1..Len(CategoryOrder) :
              (Occurs(n, helper.input) /\ \A j \in 1..(n - 1) : ~Occurs(j, helper.input)) =>
                 helper.result = CategoryOrder[n]
        /\ (\A n \in 1..Len(CategoryOrder) : ~Occurs(n, helper.input)) =>
              helper.result = "General AI"
        /\ (helper.before # Absent /\ helper.before[1].input = helper.input) =>
              helper.before[1].result = helper.result

\* a text in capitals with keywords of two categories got the earlier one,
\* after a text without any keyword got General AI
C23_Witness ==
    /\ helper.op = "categorizeByKeywords"
    /\ helper.input = "PYTORCH TRAINING LOOPS" /\ helper.result = "ML Framework"
    /\ helper.before # Absent
    /\ helper.before[1].input = "Quantum annealing solver"
    /\ helper.before[1].result = "General AI"

----------------------------------------------------------------------------
(* Properties of the recommendation queries (SpecEngine) *)

\* the rows of recommendations stored for project p with status s
Persisted(p, s) ==
    {k \in 1..Len(recommendations) :
        /\ recommendations[k].user_project_id = p
        /\ recommendations[k].status = s}

\* C30 as stated: getRecommendations(p, s) returns, for every recommendation
\* persisted for project p with status s, an entry whose id is the id
\* insertRecommendation returned and whose relevance_score is the persisted
\* score, the entries being in descending order of that score
C30_RoundTrip ==
    \A p \in 1..Len(user_projects) :
        (engine.op = "getRecommendations" /\ engine.projectId = Present(p)) =>
           /\ \A k \in Persisted(p, engine.status) :
                 \E n \in 1..Len(engine.result) :
                    /\ engine.result[n].id = recommendations[k].id
                    /\ engine.result[n].tool_id = recommendations[k].tool_id
                    /\ engine.result[n].relevance_score = recommendations[k].relevance_score
           /\ \A n, m \in 1..Len(engine.result) :
                 n < m => engine.result[n].relevance_score >= engine.result[m].relevance_score

============================================================================
